---- MODULE Spec2Model ----
(***************************************************************************)
(* Classification orchestration of the med-regulatory backend:            *)
(* the /classifier/classify request handler, the single-thread executor   *)
(* that runs classify_documents_background, the process-wide              *)
(* classification_progress dict, the classification_results table and the *)
(* three-stage LLM pipeline of DocumentClassifier.classify_document.       *)
(***************************************************************************)
EXTENDS Integers, Sequences, FiniteSets, TLC

(***************************************************************************)
(* Bounds of the model.                                                    *)
(***************************************************************************)
NumDocs == 2
MaxRequests == 2
MaxIds == 2
MaxProcRequests == 2
SelNumDocs == 3
SelMaxIds == 3

(***************************************************************************)
(* Program constants.                                                      *)
(***************************************************************************)
\* an executor with a second worker thread
max_workers_two == 1 + 1
max_workers == 1
proc_max_workers == 1

DocIds == 1..NumDocs
\* ids a request may name: the stored documents and one id that is not stored
RequestIds == 1..(NumDocs + 1)
AdminIds == {1, 2}
Titles == {"", "Guide"}
DocumentLabel == <<"Document 1", "Document 2", "Document 3", "Document 4", "Document 5">>

None == 0

VARIABLES
    documents,                \* documents table: id -> title
    classification_results,   \* classification_results table: set of rows
    next_result_id,           \* autoincrement primary key of classification_results
    classification_progress,  \* the module-level progress dict
    work_queue,                \* executor._work_queue of the classifier executor
    threads,                   \* worker threads of the classifier executor
    handler,                   \* the event-loop thread inside classify_documents
    clock,                     \* datetime.now() / datetime.utcnow()
    requests_made,             \* number of classify requests received
    proc_queue,                \* work queue of the process executor
    proc_threads,              \* worker threads of the process executor
    proc_requests_made,        \* number of /proc/process requests received
    llm,                       \* the LLM's answers to the three stage prompts, when scripted
    normalize_call,            \* one call of normalize_json: its argument and its return value
    enum_call,                 \* one call of normalize_enum_input: its argument and its return value
    process_documents,         \* process_documents table: id -> cluster_id
    process_clusters,          \* process_clusters table: the ids of its rows
    proc_index,                \* proc_indexer.index: the document ids of its nodes
    cluster_run,               \* one call of cluster_documents: its locals and its return value
    splitter,                  \* one call of Crawler._split_document: its arguments and the chunks it returns
    crawler,                   \* one run_crawler_task: its Crawler, the call stack of _crawl_url and the documents found
    document_rows,             \* documents table as run_crawler_task writes it: rows with doc_id, url, title, content
    web_requests,              \* the session.get calls of the crawls: url, depth and run of each, whether it raised, the Content-Type returned
    web,                       \* the pages the crawler can reach: url -> the hrefs of the page
    user_rows,                 \* users table: username -> the row with that username, if any
    login_call,                \* one call of login_for_access_token: the form sent and the answer
    proc_labels,               \* process_documents table: id -> the classification committed for the row
    save_run                   \* one call of classify_and_save from process_task: its arguments and its position

\* the state of the classification and process routers
classifierVars ==
    <<documents, classification_results, next_result_id, classification_progress,
      work_queue, threads, handler, clock, requests_made,
      proc_queue, proc_threads, proc_requests_made, llm>>

\* the state of the library functions exercised on their own
libVars ==
    <<normalize_call, enum_call, process_documents, process_clusters,
      proc_index, cluster_run, splitter, crawler, document_rows,
      web_requests, web, user_rows, login_call, proc_labels, save_run>>

vars == <<classifierVars, libVars>>

IdleNormalize == [pc |-> "idle", raw |-> <<>>, json_candidate |-> <<>>]

IdleEnum == [pc |-> "idle", input_value |-> <<>>, result |-> <<>>]

IdleProcessDocuments == <<>>

IdleProcessClusters == {}

IdleProcIndex == {}

IdleClusterRun ==
    [pc |-> "idle", calls |-> 0, docs |-> <<>>, i |-> 0, clustered |-> {},
     clusters |-> <<>>, returned |-> <<>>]

IdleSplitter == [pc |-> "idle", source_type |-> "HTML", pdf |-> <<>>, toc |-> <<>>, content |-> <<>>, max_size |-> 0, chunks |-> <<>>]

IdleCrawler == [pc |-> "idle", target |-> [url |-> <<>>, depth |-> 0, update_existing |-> TRUE], visited_urls |-> {}, stack |-> <<>>, documents |-> <<>>, runs |-> 0]

IdleDocumentRows == {}

IdleWebRequests == <<>>

IdleWeb == <<>>

IdleUsers == <<>>

IdleLogin == [pc |-> "idle", username |-> 0, password |-> 0, user |-> 0, status_code |-> 0, access_token |-> 0]

IdleProcLabels == <<>>

IdleSaveRun == [pc |-> "idle", texts_with_ids |-> <<>>, i |-> 0]

\* the library state other than one call's own variable, and that state at rest
rest_normalize_call ==
    <<enum_call, process_documents, process_clusters, proc_index,
      cluster_run, splitter, crawler, document_rows, web_requests, web,
      user_rows, login_call, proc_labels, save_run>>

RestIdle_normalize_call ==
    /\ enum_call = IdleEnum
    /\ process_documents = IdleProcessDocuments
    /\ process_clusters = IdleProcessClusters
    /\ proc_index = IdleProcIndex
    /\ cluster_run = IdleClusterRun
    /\ splitter = IdleSplitter
    /\ crawler = IdleCrawler
    /\ document_rows = IdleDocumentRows
    /\ web_requests = IdleWebRequests
    /\ web = IdleWeb
    /\ user_rows = IdleUsers
    /\ login_call = IdleLogin
    /\ proc_labels = IdleProcLabels
    /\ save_run = IdleSaveRun

rest_enum_call ==
    <<normalize_call, process_documents, process_clusters, proc_index,
      cluster_run, splitter, crawler, document_rows, web_requests, web,
      user_rows, login_call, proc_labels, save_run>>

RestIdle_enum_call ==
    /\ normalize_call = IdleNormalize
    /\ process_documents = IdleProcessDocuments
    /\ process_clusters = IdleProcessClusters
    /\ proc_index = IdleProcIndex
    /\ cluster_run = IdleClusterRun
    /\ splitter = IdleSplitter
    /\ crawler = IdleCrawler
    /\ document_rows = IdleDocumentRows
    /\ web_requests = IdleWebRequests
    /\ web = IdleWeb
    /\ user_rows = IdleUsers
    /\ login_call = IdleLogin
    /\ proc_labels = IdleProcLabels
    /\ save_run = IdleSaveRun

rest_cluster ==
    <<normalize_call, enum_call, splitter, crawler, document_rows,
      web_requests, web, user_rows, login_call, proc_labels, save_run>>

RestIdle_cluster ==
    /\ normalize_call = IdleNormalize
    /\ enum_call = IdleEnum
    /\ splitter = IdleSplitter
    /\ crawler = IdleCrawler
    /\ document_rows = IdleDocumentRows
    /\ web_requests = IdleWebRequests
    /\ web = IdleWeb
    /\ user_rows = IdleUsers
    /\ login_call = IdleLogin
    /\ proc_labels = IdleProcLabels
    /\ save_run = IdleSaveRun

rest_splitter ==
    <<normalize_call, enum_call, process_documents, process_clusters,
      proc_index, cluster_run, crawler, document_rows, web_requests, web,
      user_rows, login_call, proc_labels, save_run>>

RestIdle_splitter ==
    /\ normalize_call = IdleNormalize
    /\ enum_call = IdleEnum
    /\ process_documents = IdleProcessDocuments
    /\ process_clusters = IdleProcessClusters
    /\ proc_index = IdleProcIndex
    /\ cluster_run = IdleClusterRun
    /\ crawler = IdleCrawler
    /\ document_rows = IdleDocumentRows
    /\ web_requests = IdleWebRequests
    /\ web = IdleWeb
    /\ user_rows = IdleUsers
    /\ login_call = IdleLogin
    /\ proc_labels = IdleProcLabels
    /\ save_run = IdleSaveRun

rest_crawl ==
    <<normalize_call, enum_call, process_documents, process_clusters,
      proc_index, cluster_run, splitter, user_rows, login_call, proc_labels,
      save_run>>

RestIdle_crawl ==
    /\ normalize_call = IdleNormalize
    /\ enum_call = IdleEnum
    /\ process_documents = IdleProcessDocuments
    /\ process_clusters = IdleProcessClusters
    /\ proc_index = IdleProcIndex
    /\ cluster_run = IdleClusterRun
    /\ splitter = IdleSplitter
    /\ user_rows = IdleUsers
    /\ login_call = IdleLogin
    /\ proc_labels = IdleProcLabels
    /\ save_run = IdleSaveRun

rest_auth ==
    <<normalize_call, enum_call, process_documents, process_clusters,
      proc_index, cluster_run, splitter, crawler, document_rows,
      web_requests, web, proc_labels, save_run>>

RestIdle_auth ==
    /\ normalize_call = IdleNormalize
    /\ enum_call = IdleEnum
    /\ process_documents = IdleProcessDocuments
    /\ process_clusters = IdleProcessClusters
    /\ proc_index = IdleProcIndex
    /\ cluster_run = IdleClusterRun
    /\ splitter = IdleSplitter
    /\ crawler = IdleCrawler
    /\ document_rows = IdleDocumentRows
    /\ web_requests = IdleWebRequests
    /\ web = IdleWeb
    /\ proc_labels = IdleProcLabels
    /\ save_run = IdleSaveRun

rest_save ==
    <<normalize_call, enum_call, process_documents, process_clusters,
      proc_index, cluster_run, splitter, crawler, document_rows,
      web_requests, web, user_rows, login_call>>

RestIdle_save ==
    /\ normalize_call = IdleNormalize
    /\ enum_call = IdleEnum
    /\ process_documents = IdleProcessDocuments
    /\ process_clusters = IdleProcessClusters
    /\ proc_index = IdleProcIndex
    /\ cluster_run = IdleClusterRun
    /\ splitter = IdleSplitter
    /\ crawler = IdleCrawler
    /\ document_rows = IdleDocumentRows
    /\ web_requests = IdleWebRequests
    /\ web = IdleWeb
    /\ user_rows = IdleUsers
    /\ login_call = IdleLogin

\* end of the library state

\* no library function is being exercised
LibIdle ==
    /\ normalize_call = IdleNormalize
    /\ enum_call = IdleEnum
    /\ process_documents = IdleProcessDocuments
    /\ process_clusters = IdleProcessClusters
    /\ proc_index = IdleProcIndex
    /\ cluster_run = IdleClusterRun
    /\ splitter = IdleSplitter
    /\ crawler = IdleCrawler
    /\ document_rows = IdleDocumentRows
    /\ web_requests = IdleWebRequests
    /\ web = IdleWeb
    /\ user_rows = IdleUsers
    /\ login_call = IdleLogin
    /\ proc_labels = IdleProcLabels
    /\ save_run = IdleSaveRun

(***************************************************************************)
(* Helpers on sequences.                                                   *)
(***************************************************************************)
SeqsUpTo(S, n) == UNION {[1..k -> S] : k \in 0..n}

Range(s) == {s[i] : i \in DOMAIN s}

RECURSIVE SetToSortedSeq(_)
SetToSortedSeq(S) ==
    IF S = {} THEN <<>>
    ELSE LET m == CHOOSE x \in S : \A y \in S : x <= y
         IN <<m>> \o SetToSortedSeq(S \ {m})


(***************************************************************************)
(* The LLM client and the three stages of DocumentClassifier.              *)
(*                                                                         *)
(* One LLM call is modelled by what the stage does with its response:      *)
(*   RAISE    sequence.invoke raises (timeout, API failure)                *)
(*   NONJSON  the text does not parse after normalize_json                 *)
(*   NONOBJ   the text parses to a JSON value that is not an object        *)
(*   NOKEY    an object without the key the stage reads                    *)
(*   EMPTY    an object whose key holds []                                 *)
(*   LIST     an object whose key holds a non-empty array of well-formed   *)
(*            items                                                        *)
(*   OTHER    an object whose key holds a non-empty string                 *)
(* Python values are modelled by their shape.                              *)
(***************************************************************************)
Responses == {"RAISE", "NONJSON", "NONOBJ", "NOKEY", "EMPTY", "LIST", "OTHER"}

PyEmptyList == "list:empty"
PyList == "list:items"
PyEmptyDict == "dict:empty"
PyStr == "str"

Raised == [raised |-> TRUE, value |-> PyEmptyList]
Returned(v) == [raised |-> FALSE, value |-> v]

\* data = json.loads(normalize_json(raw)); data.get(key, []) inside the stage's try:
\* the value read, or "except" when the try block raises
ParseAndGet(resp) ==
    CASE resp = "NONJSON" -> "except"
      [] resp = "NONOBJ" -> "except"
      [] resp = "NOKEY" -> PyEmptyList
      [] resp = "EMPTY" -> PyEmptyList
      [] resp = "LIST" -> PyList
      [] resp = "OTHER" -> PyStr

_extract_document(resp) ==
    IF resp = "RAISE" THEN Raised
    ELSE IF ParseAndGet(resp) = "except" THEN Returned(PyEmptyList)
    ELSE Returned(ParseAndGet(resp))

_classify_custom(resp) ==
    IF resp = "RAISE" THEN Raised
    ELSE IF ParseAndGet(resp) = "except" THEN Returned(PyEmptyDict)
    ELSE Returned(ParseAndGet(resp))

_extract_keywords(resp) ==
    IF resp = "RAISE" THEN Raised
    ELSE IF ParseAndGet(resp) = "except" THEN Returned(PyEmptyList)
    ELSE Returned(ParseAndGet(resp))

\* "\n".join(f"{r['id']}. ..." for r in reqs) or "": the text is empty for an empty
\* list; indexing a character of a string with 'id' raises TypeError
req_list_to_str(reqs) ==
    CASE reqs = PyEmptyList -> [raised |-> FALSE, value |-> "text:empty"]
      [] reqs = PyEmptyDict -> [raised |-> FALSE, value |-> "text:empty"]
      [] reqs = PyList -> [raised |-> FALSE, value |-> "text:requirements"]
      [] reqs = PyStr -> [raised |-> TRUE, value |-> "text:empty"]

\* text_for_fw = req_list_to_str(reqs) or document_text
text_for_fw(reqs) ==
    IF req_list_to_str(reqs).value = "text:empty" THEN "text:document"
    ELSE req_list_to_str(reqs).value

RaisedResult ==
    [raised |-> TRUE, requirements |-> PyEmptyList, keywords |-> PyEmptyList]

\* DocumentClassifier.classify_document, given the responses of the three LLM calls
classify_document(e, c, k) ==
    LET reqs == _extract_document(e)
    IN IF reqs.raised THEN RaisedResult
       ELSE IF req_list_to_str(reqs.value).raised THEN RaisedResult
       ELSE IF _classify_custom(c).raised THEN RaisedResult
       ELSE IF _extract_keywords(k).raised THEN RaisedResult
       ELSE [raised |-> FALSE,
             requirements |-> _classify_custom(c).value,
             keywords |-> _extract_keywords(k).value]

\* json.dumps(classification_result): the JSON text, by the kind of each member
json_dumps_value(v) ==
    CASE v = PyEmptyList -> "[]"
      [] v = PyList -> "[...]"
      [] v = PyEmptyDict -> "{}"
      [] v = PyStr -> "\"...\""

json_dumps(result) ==
    [requirements |-> json_dumps_value(result.requirements),
     keywords |-> json_dumps_value(result.keywords)]

JsonArrays == {"[]", "[...]"}

(***************************************************************************)
(* The classification_results table.                                       *)
(***************************************************************************)
RowsOf(results, doc_id) == {r \in results : r.document_id = doc_id}

\* db.query(DBClassificationResult).filter(document_id == doc_id).first():
\* the id of the row found, or None
FirstResult(results, doc_id) ==
    IF RowsOf(results, doc_id) = {} THEN None
    ELSE (CHOOSE r \in RowsOf(results, doc_id) :
            \A q \in RowsOf(results, doc_id) : r.id <= q.id).id

\* a worker that never looks for the row it should overwrite
StoreResultAlwaysInsert(results, next_id, existing, doc_id, user_id, result, now) ==
    results \cup {[id |-> next_id, document_id |-> doc_id, user_id |-> user_id,
                   result_json |-> json_dumps(result), created_at |-> now]}

\* lines 349-363 of classify_documents_background: overwrite the row found before
\* the LLM call, or insert a new one
StoreResult(results, next_id, existing, doc_id, user_id, result, now) ==
    IF existing # None
    THEN {IF r.id = existing
          THEN [r EXCEPT !.result_json = json_dumps(result),
                         !.created_at = now,
                         !.user_id = user_id]
          ELSE r : r \in results}
    ELSE results \cup {[id |-> next_id, document_id |-> doc_id, user_id |-> user_id,
                        result_json |-> json_dumps(result), created_at |-> now]}

(***************************************************************************)
(* Document selection of POST /classifier/classify.                        *)
(***************************************************************************)
TitleOrLabel(docs, doc_id) ==
    IF docs[doc_id] # "" THEN docs[doc_id] ELSE DocumentLabel[doc_id]

Classified(results) == {r.document_id : r \in results}

RECURSIVE SelectByIdsNoSkip(_, _, _, _)
\* a selection loop that never looks for an existing result
SelectByIdsNoSkip(ids, reclassify, docs, results) ==
    IF ids = <<>> THEN [documents |-> <<>>, already_classified |-> <<>>]
    ELSE LET doc_id == Head(ids)
             rest == SelectByIdsNoSkip(Tail(ids), reclassify, docs, results)
         IN IF doc_id \notin DOMAIN docs THEN rest
            ELSE [rest EXCEPT !.documents = <<doc_id>> \o @]

RECURSIVE SelectByIds(_, _, _, _)
\* the loop over classification_request.document_ids
SelectByIds(ids, reclassify, docs, results) ==
    IF ids = <<>> THEN [documents |-> <<>>, already_classified |-> <<>>]
    ELSE LET doc_id == Head(ids)
             rest == SelectByIds(Tail(ids), reclassify, docs, results)
         IN IF doc_id \notin DOMAIN docs THEN rest
            ELSE IF FirstResult(results, doc_id) # None /\ ~reclassify
            THEN [rest EXCEPT !.already_classified =
                                  <<TitleOrLabel(docs, doc_id)>> \o @]
            ELSE [rest EXCEPT !.documents = <<doc_id>> \o @]

SelectDocuments(req, docs, results) ==
    IF req.all_documents
    THEN IF req.reclassify
         THEN [documents |-> SetToSortedSeq(DOMAIN docs), already_classified |-> <<>>]
         ELSE [documents |-> SetToSortedSeq(DOMAIN docs \ Classified(results)),
               already_classified |-> <<>>]
    ELSE IF req.document_ids # <<>>
    THEN SelectByIds(req.document_ids, req.reclassify, docs, results)
    ELSE IF req.section_ids # <<>>
    THEN [documents |-> SetToSortedSeq(DOMAIN docs \cap Range(req.section_ids)),
          already_classified |-> <<>>]
    ELSE [documents |-> <<>>, already_classified |-> <<>>]

\* the ClassificationResult the handler returns (lines 128-144)
ClassifyResponse(docs, already_classified) ==
    [status_code |-> 200,
     processed_count |-> Len(docs),
     skipped_documents |-> already_classified,
     total_count |-> Len(docs),
     current_count |-> 0,
     status |-> "initializing"]


(***************************************************************************)
(* Requests.                                                               *)
(***************************************************************************)
IdLists == SeqsUpTo(RequestIds, MaxIds) \ {<<>>}

Request(all, re, dids, sids, uid) ==
    [all_documents |-> all, reclassify |-> re, document_ids |-> dids,
     section_ids |-> sids, user_id |-> uid]

\* one selection mode per request, and the request that names nothing
Requests ==
    {Request(TRUE, re, <<>>, <<>>, u) : re \in BOOLEAN, u \in AdminIds}
    \cup {Request(FALSE, re[1], ids, <<>>, re[2]) :
            re \in BOOLEAN \X AdminIds, ids \in IdLists}
    \cup {Request(FALSE, re[1], <<>>, ids, re[2]) :
            re \in BOOLEAN \X AdminIds, ids \in IdLists}
    \cup {Request(FALSE, re, <<>>, <<>>, u) : re \in BOOLEAN, u \in AdminIds}

\* no request in hand
NoRequest == Request(FALSE, FALSE, <<>>, <<>>, None)

IdleHandler ==
    [pc |-> "idle", classification_request |-> NoRequest,
     documents |-> <<>>, already_classified |-> <<>>]

IdleThread ==
    [pc |-> "idle", documents |-> <<>>, idx |-> 0, user_id |-> None, run |-> 0,
     existing_classification |-> None, action_type |-> "none",
     classification_result |-> [requirements |-> PyEmptyList, keywords |-> PyEmptyList]]

IdleProcThread == [pc |-> "idle", run |-> 0]

InitialProgress ==
    [total_documents |-> 0, processed_documents |-> 0, status |-> "idle",
     started_at |-> None, completed_at |-> None]

IdlePipeline == [extract |-> "EMPTY", custom |-> "EMPTY", keywords |-> "EMPTY"]

\* the routers after import, the database holding NumDocs documents
ClassifierInit ==
    /\ documents = [d \in DocIds |-> "Guide"]
    /\ classification_results = {}
    /\ next_result_id = 1
    /\ classification_progress = InitialProgress
    /\ work_queue = <<>>
    /\ threads = [t \in 1..max_workers |-> IdleThread]
    /\ handler = IdleHandler
    /\ clock = 1
    /\ requests_made = 0
    /\ proc_queue = <<>>
    /\ proc_threads = [t \in 1..proc_max_workers |-> IdleProcThread]
    /\ proc_requests_made = 0
    /\ llm = IdlePipeline

Init == ClassifierInit /\ LibIdle

(***************************************************************************)
(* POST /classifier/classify, on the event loop thread.                    *)
(***************************************************************************)
\* lines 71-109: nothing selected, HTTP 404
Classify_NotFound(req) ==
    /\ handler.pc = "idle"
    /\ requests_made < MaxRequests
    /\ SelectDocuments(req, documents, classification_results).documents = <<>>
    /\ requests_made' = requests_made + 1
    /\ clock' = clock + 1
    /\ UNCHANGED <<documents, classification_results, next_result_id,
                   classification_progress, work_queue, threads, handler,
                   proc_queue, proc_threads, proc_requests_made, llm, libVars>>

\* lines 71-117: select the documents and hand the job to the executor
Classify_Submit(req) ==
    /\ handler.pc = "idle"
    /\ requests_made < MaxRequests
    /\ LET sel == SelectDocuments(req, documents, classification_results)
       IN /\ sel.documents # <<>>
          /\ work_queue' = Append(work_queue,
                 [documents |-> sel.documents, user_id |-> req.user_id,
                  run |-> requests_made + 1])
          /\ handler' = [pc |-> "reset", classification_request |-> req,
                         documents |-> sel.documents,
                         already_classified |-> sel.already_classified]
    /\ requests_made' = requests_made + 1
    /\ clock' = clock + 1
    /\ UNCHANGED <<documents, classification_results, next_result_id,
                   classification_progress, threads,
                   proc_queue, proc_threads, proc_requests_made, llm, libVars>>

\* lines 119-144: rebind the progress dict and answer
Classify_Reset ==
    /\ handler.pc = "reset"
    /\ classification_progress' =
           [total_documents |-> Len(handler.documents),
            processed_documents |-> 0,
            status |-> "initializing",
            started_at |-> clock,
            completed_at |-> None]
    /\ handler' = IdleHandler
    /\ UNCHANGED <<documents, classification_results, next_result_id, work_queue,
                   threads, clock, requests_made, proc_queue, proc_threads,
                   proc_requests_made, llm, libVars>>

\* DELETE /admin/documents/{doc_id}: the delete commits only when no
\* classification_results row refers to the document (document_id is NOT NULL)
DeleteDocument(d) ==
    /\ handler.pc = "idle"
    /\ d \in DOMAIN documents
    /\ RowsOf(classification_results, d) = {}
    /\ documents' = [x \in DOMAIN documents \ {d} |-> documents[x]]
    /\ UNCHANGED <<classification_results, next_result_id, classification_progress,
                   work_queue, threads, handler, clock, requests_made,
                   proc_queue, proc_threads, proc_requests_made, llm, libVars>>


(***************************************************************************)
(* ThreadPoolExecutor(max_workers) running classify_documents_background.  *)
(***************************************************************************)
\* a worker thread takes the oldest job of the queue (line 326-328)
Worker_Take(t) ==
    /\ threads[t].pc = "idle"
    /\ work_queue # <<>>
    /\ threads' = [threads EXCEPT ![t] =
           [IdleThread EXCEPT !.pc = "start",
                              !.documents = Head(work_queue).documents,
                              !.user_id = Head(work_queue).user_id,
                              !.run = Head(work_queue).run]]
    /\ work_queue' = Tail(work_queue)
    /\ UNCHANGED <<documents, classification_results, next_result_id,
                   classification_progress, handler, clock, requests_made,
                   proc_queue, proc_threads, proc_requests_made, llm, libVars>>

\* line 330
Worker_InProgress(t) ==
    /\ threads[t].pc = "start"
    /\ classification_progress' = [classification_progress EXCEPT !.status = "in_progress"]
    /\ threads' = [threads EXCEPT ![t].pc = "loop"]
    /\ UNCHANGED <<documents, classification_results, next_result_id, work_queue,
                   handler, clock, requests_made,
                   proc_queue, proc_threads, proc_requests_made, llm, libVars>>

CurrentDoc(t) == threads[t].documents[threads[t].idx + 1]

\* lines 334-337: the document is gone, continue
Worker_NotFound(t) ==
    /\ threads[t].pc = "loop"
    /\ threads[t].idx < Len(threads[t].documents)
    /\ CurrentDoc(t) \notin DOMAIN documents
    /\ threads' = [threads EXCEPT ![t].idx = @ + 1]
    /\ UNCHANGED <<documents, classification_results, next_result_id,
                   classification_progress, work_queue, handler, clock,
                   requests_made, proc_queue, proc_threads, proc_requests_made,
                   llm, libVars>>

\* lines 334-347: find the document and its row, run the LLM pipeline
Worker_Classify(t, e, c, k) ==
    /\ threads[t].pc = "loop"
    /\ threads[t].idx < Len(threads[t].documents)
    /\ CurrentDoc(t) \in DOMAIN documents
    /\    /\ ~classify_document(e, c, k).raised
          /\ threads' = [threads EXCEPT
                 ![t].pc = "store",
                 ![t].existing_classification =
                     FirstResult(classification_results, CurrentDoc(t)),
                 ![t].classification_result =
                     [requirements |-> classify_document(e, c, k).requirements,
                      keywords |-> classify_document(e, c, k).keywords]]
    /\ UNCHANGED <<documents, classification_results, next_result_id,
                   classification_progress, work_queue, handler, clock,
                   requests_made, proc_queue, proc_threads, proc_requests_made,
                   llm, libVars>>

\* an exception that leaves the loop: the run ends at the failing document
Worker_ExceptionAborts(t, e, c, k) ==
    /\ threads[t].pc = "loop"
    /\ threads[t].idx < Len(threads[t].documents)
    /\ CurrentDoc(t) \in DOMAIN documents
    /\ classify_document(e, c, k).raised
    /\ threads' = [threads EXCEPT ![t] = IdleThread]
    /\ UNCHANGED <<documents, classification_results, next_result_id,
                   classification_progress, work_queue, handler, clock,
                   requests_made, proc_queue, proc_threads, proc_requests_made,
                   llm, libVars>>

\* lines 345-347 raise, lines 369-371: log, roll back, next document
Worker_Exception(t, e, c, k) ==
    /\ threads[t].pc = "loop"
    /\ threads[t].idx < Len(threads[t].documents)
    /\ CurrentDoc(t) \in DOMAIN documents
    /\ classify_document(e, c, k).raised
    /\ threads' = [threads EXCEPT ![t].idx = @ + 1]
    /\ UNCHANGED <<documents, classification_results, next_result_id,
                   classification_progress, work_queue, handler, clock,
                   requests_made, proc_queue, proc_threads, proc_requests_made,
                   llm, libVars>>

\* lines 349-364: write the row, commit, advance the progress counter
Worker_Store(t) ==
    /\ threads[t].pc = "store"
    /\ classification_results' =
           StoreResult(classification_results, next_result_id,
                       threads[t].existing_classification, CurrentDoc(t),
                       threads[t].user_id, threads[t].classification_result, clock)
    /\ next_result_id' =
           IF Cardinality(classification_results') > Cardinality(classification_results)
           THEN next_result_id + 1 ELSE next_result_id
    /\ classification_progress' =
           [classification_progress EXCEPT !.processed_documents = threads[t].idx + 1]
    /\ threads' = [threads EXCEPT
           ![t].pc = "loop",
           ![t].idx = @ + 1,
           ![t].action_type =
               IF threads[t].existing_classification # None THEN "updated"
               ELSE "created",
           ![t].existing_classification = None,
           ![t].classification_result = IdleThread.classification_result]
    /\ UNCHANGED <<documents, work_queue, handler, clock, requests_made,
                   proc_queue, proc_threads, proc_requests_made, llm, libVars>>

\* lines 373-377: the loop is over
Worker_Complete(t) ==
    /\ threads[t].pc = "loop"
    /\ threads[t].idx = Len(threads[t].documents)
    /\ classification_progress' =
           [classification_progress EXCEPT !.status = "completed",
                                           !.completed_at = clock]
    /\ threads' = [threads EXCEPT ![t] = IdleThread]
    /\ UNCHANGED <<documents, classification_results, next_result_id, work_queue,
                   handler, clock, requests_made,
                   proc_queue, proc_threads, proc_requests_made, llm, libVars>>

(***************************************************************************)
(* POST /proc/process and its executor running process_task.               *)
(***************************************************************************)
Process_Submit ==
    /\ handler.pc = "idle"
    /\ proc_requests_made < MaxProcRequests
    /\ proc_requests_made' = proc_requests_made + 1
    /\ proc_queue' = Append(proc_queue, proc_requests_made + 1)
    /\ UNCHANGED <<documents, classification_results, next_result_id,
                   classification_progress, work_queue, threads, handler,
                   clock, requests_made, proc_threads, llm, libVars>>

ProcWorker_Take(t) ==
    /\ proc_threads[t].pc = "idle"
    /\ proc_queue # <<>>
    /\ proc_threads' = [proc_threads EXCEPT ![t] = [pc |-> "running", run |-> Head(proc_queue)]]
    /\ proc_queue' = Tail(proc_queue)
    /\ UNCHANGED <<documents, classification_results, next_result_id,
                   classification_progress, work_queue, threads, handler,
                   clock, requests_made, proc_requests_made, llm, libVars>>

ProcWorker_Return(t) ==
    /\ proc_threads[t].pc = "running"
    /\ proc_threads' = [proc_threads EXCEPT ![t] = IdleProcThread]
    /\ UNCHANGED <<documents, classification_results, next_result_id,
                   classification_progress, work_queue, threads, handler,
                   clock, requests_made, proc_queue, proc_requests_made, llm, libVars>>

(***************************************************************************)
(* Specifications.                                                         *)
(***************************************************************************)
\* the answers the LLM gives in the orchestration runs
RunExtract == {"RAISE", "LIST"}
RunCustom == {"LIST"}
RunKeywords == {"EMPTY", "LIST"}

\* the event loop hands the handler a request only when it is not inside one
Arriving(reqs) == IF handler.pc = "idle" /\ requests_made < MaxRequests THEN reqs ELSE {}

Handlers(reqs) ==
    \/ \E req \in Arriving(reqs) : Classify_NotFound(req)
    \/ \E req \in Arriving(reqs) : Classify_Submit(req)
    \/ Classify_Reset

Workers(E, C, K) ==
    \/ \E t \in 1..max_workers : Worker_Take(t)
    \/ \E t \in 1..max_workers : Worker_InProgress(t)
    \/ \E t \in 1..max_workers, e \in E, c \in C, k \in K : Worker_Classify(t, e, c, k)
    \/ \E t \in 1..max_workers, e \in E, c \in C, k \in K : Worker_Exception(t, e, c, k)
    \/ \E t \in 1..max_workers : Worker_Store(t)
    \/ \E t \in 1..max_workers : Worker_Complete(t)

Next ==
    \/ Handlers(Requests)
    \/ \E d \in DocIds : DeleteDocument(d)
    \/ \E t \in 1..max_workers : Worker_NotFound(t)
    \/ Workers(RunExtract, RunCustom, RunKeywords)

Spec == Init /\ [][Next]_vars

\* The two executors side by side: every classify request names one section id.
OneSectionRequests(users) ==
    {Request(FALSE, FALSE, <<>>, <<d>>, u) : d \in RequestIds, u \in users}

ProcWorkers ==
    \/ Process_Submit
    \/ \E t \in 1..proc_max_workers : ProcWorker_Take(t)
    \/ \E t \in 1..proc_max_workers : ProcWorker_Return(t)

NextExec ==
    \/ Handlers(OneSectionRequests({1}))
    \/ Workers(RunExtract, RunCustom, RunKeywords)
    \/ ProcWorkers

SpecExec == Init /\ [][NextExec]_vars

\* Runs that classify again what is classified: requests by any admin that name
\* one section id, or the same document id twice with reclassification forced.
RunRequests ==
    OneSectionRequests(AdminIds)
    \cup {Request(FALSE, TRUE, <<d, d>>, <<>>, u) : d \in DocIds, u \in AdminIds}

NextRuns ==
    \/ Handlers(RunRequests)
    \/ Workers(RunExtract, RunCustom, RunKeywords)

SpecRuns == Init /\ [][NextRuns]_vars


\* Requests that leave reclassify at its default.
DefaultRequests == {req \in Requests : ~req.reclassify}

NextDefault ==
    \/ Handlers(DefaultRequests)
    \/ \E d \in DocIds : DeleteDocument(d)
    \/ \E t \in 1..max_workers : Worker_NotFound(t)
    \/ Workers(RunExtract, RunCustom, RunKeywords)

SpecDefault == Init /\ [][NextDefault]_vars

(***************************************************************************)
(* Properties of the progress state.                                       *)
(***************************************************************************)
Busy(t) == threads[t].pc # "idle"

\* C1: whenever the progress status is 'completed', processed_documents equals
\* total_documents, also for runs in which a document fails or is not found.
C1_CompletedMeansAllProcessed ==
    classification_progress.status = "completed"
        => classification_progress.processed_documents
               = classification_progress.total_documents

\* the job of the request the handler is serving still waits in the queue
LatestRunWaiting == \E i \in DOMAIN work_queue : work_queue[i].run = requests_made

\* C2: during one classification run the processed_documents a poller reads never
\* decreases: the only step that lowers it is the reset by which a request starts
\* its own run, before a worker has taken that run.
C2_ProcessedNeverDecreases ==
    [][classification_progress'.processed_documents
           < classification_progress.processed_documents
         => handler.pc = "reset" /\ handler'.pc = "idle" /\ LatestRunWaiting]_vars

StatusTransitions ==
    {<<"idle", "initializing">>, <<"initializing", "in_progress">>,
     <<"in_progress", "completed">>, <<"in_progress", "error">>,
     <<"completed", "initializing">>, <<"error", "initializing">>}

\* C3: the status only moves idle -> initializing -> in_progress -> completed or
\* error, and from a finished run to the initializing of the next.
C3_StatusFollowsStateMachine ==
    [][classification_progress'.status # classification_progress.status
         => <<classification_progress.status, classification_progress'.status>>
                \in StatusTransitions]_vars

\* C5: the progress state has a single writer: the request handler never stands
\* before its write of classification_progress while a worker thread is between
\* the first and the last write of a run.
C5_SingleWriter ==
    ~(handler.pc = "reset" /\ \E t \in DOMAIN threads : Busy(t))

\* C7: with reclassify=false in every request, classify_document never returns for
\* a document that already has a ClassificationResult.
C7_AtMostOnceByDefault ==
    \A t \in DOMAIN threads :
        threads[t].pc = "store" => threads[t].existing_classification = None

(***************************************************************************)
(* Properties of the executors.                                            *)
(***************************************************************************)
Increasing(runs) == \A i, j \in DOMAIN runs : i < j => runs[i] < runs[j]

\* C4: at most one classify_documents_background run and at most one process_task
\* run execute at a time; the other accepted runs wait in submission order behind
\* the one that executes.
C4_OneRunAtATimeInOrder ==
    /\ Cardinality({t \in DOMAIN threads : Busy(t)}) <= 1
    /\ Cardinality({t \in DOMAIN proc_threads : proc_threads[t].pc # "idle"}) <= 1
    /\ Increasing([i \in DOMAIN work_queue |-> work_queue[i].run])
    /\ Increasing(proc_queue)
    /\ \A t \in DOMAIN threads : \A i \in DOMAIN work_queue :
           Busy(t) => threads[t].run < work_queue[i].run
    /\ \A t \in DOMAIN proc_threads : \A i \in DOMAIN proc_queue :
           proc_threads[t].pc # "idle" => proc_threads[t].run < proc_queue[i]

C4_Witness ==
    /\ \E t \in DOMAIN threads : threads[t].pc = "store"
    /\ work_queue # <<>>
    /\ \E t \in DOMAIN proc_threads : proc_threads[t].pc = "running"
    /\ proc_queue # <<>>

(***************************************************************************)
(* Properties of the classification_results table.                         *)
(***************************************************************************)
AtMostOneResultPerDocument ==
    \A d \in RequestIds : Cardinality(RowsOf(classification_results, d)) <= 1

\* what one Worker_Store step of thread t does to the table
StoredInPlace(t) ==
    LET d == CurrentDoc(t)
        old == RowsOf(classification_results, d)
        new == RowsOf(classification_results', d)
    IN /\ classification_results' \ new = classification_results \ old
       /\ IF old = {}
          THEN Cardinality(new) = 1
          ELSE /\ {r.id : r \in new} = {r.id : r \in old}
               /\ \A r \in new :
                     /\ r.result_json = json_dumps(threads[t].classification_result)
                     /\ r.created_at = clock
                     /\ r.user_id = threads[t].user_id

\* C8: each document has at most one ClassificationResult; classifying a document
\* that has one overwrites its result_json, created_at and user_id in place, and
\* only a document without a result gets a new record.
C8_OneResultOverwrittenInPlace ==
    /\ []AtMostOneResultPerDocument
    /\ [][\A t \in DOMAIN threads : Worker_Store(t) => StoredInPlace(t)]_vars

C8_Witness ==
    \E t \in DOMAIN threads, r \in classification_results :
        /\ threads[t].action_type = "updated"
        /\ r.created_at > 2
        /\ r.user_id = 2


(***************************************************************************)
(* Document selection on its own: one classify request against a database *)
(* that earlier runs have filled, after requests that selected nothing.     *)
(***************************************************************************)
SelDocIds == 1..SelNumDocs

SelIdLists == SeqsUpTo(1..(SelNumDocs + 1), SelMaxIds) \ {<<>>}

SelRequests ==
    {Request(TRUE, re, <<>>, <<>>, 1) : re \in BOOLEAN}
    \cup {Request(FALSE, re, ids, <<>>, 1) : re \in BOOLEAN, ids \in SelIdLists}
    \cup {Request(FALSE, re, <<>>, ids, 1) : re \in BOOLEAN, ids \in SelIdLists}
    \cup {Request(FALSE, re, <<>>, <<>>, 1) : re \in BOOLEAN}

StoredRow(d) ==
    [id |-> d, document_id |-> d, user_id |-> 1,
     result_json |-> json_dumps([requirements |-> PyList, keywords |-> PyList]),
     created_at |-> 1]

InitSelect ==
    /\ documents \in [SelDocIds -> Titles]
    /\ \E S \in SUBSET SelDocIds : classification_results = {StoredRow(d) : d \in S}
    /\ next_result_id = SelNumDocs + 1
    /\ classification_progress = InitialProgress
    /\ work_queue = <<>>
    /\ threads = [t \in 1..max_workers |-> IdleThread]
    /\ handler = IdleHandler
    /\ clock = MaxRequests
    /\ requests_made = MaxRequests - 1
    /\ proc_queue = <<>>
    /\ proc_threads = [t \in 1..proc_max_workers |-> IdleProcThread]
    /\ proc_requests_made = 0
    /\ llm = IdlePipeline
    /\ LibIdle

SpecSelect == InitSelect /\ [][Handlers(SelRequests)]_vars

ByIdsDefault(req) == ~req.all_documents /\ req.document_ids # <<>> /\ ~req.reclassify

\* the positions of document_ids that name a stored document with (c = TRUE) or
\* without (c = FALSE) a ClassificationResult
Listed(req, c) ==
    {i \in DOMAIN req.document_ids :
        /\ req.document_ids[i] \in DOMAIN documents
        /\ (\E r \in classification_results : r.document_id = req.document_ids[i]) = c}

\* the handler is free to take the next request
Receiving == handler.pc = "idle" /\ requests_made < MaxRequests

\* a step in which the handler accepts a document_ids request with reclassify unset
AcceptsByIds ==
    /\ handler.pc = "idle"
    /\ handler'.pc = "reset"
    /\ ByIdsDefault(handler'.classification_request)

Accepted ==
    ClassifyResponse(handler'.documents, handler'.already_classified)

\* C6 as stated: every listed existing document that has a result is left out and
\* its title is returned in skipped_documents (so the request is not answered 404);
\* processed_count is the number of listed existing documents without a result.
C6_SkippedTitlesReturned ==
    /\ [](Receiving =>
             \A req \in SelRequests :
                (ByIdsDefault(req) /\ Listed(req, TRUE) # {})
                => ~ENABLED Classify_NotFound(req))
    /\ [][AcceptsByIds =>
            LET req == handler'.classification_request
            IN /\ \A i \in Listed(req, TRUE) :
                     /\ req.document_ids[i] \notin Range(handler'.documents)
                     /\ documents[req.document_ids[i]]
                            \in Range(Accepted.skipped_documents)
               /\ Accepted.processed_count = Cardinality(Listed(req, FALSE))]_vars

\* the entries of ids at the positions in P, in order
RECURSIVE Pick(_, _, _)
Pick(ids, P, i) ==
    IF i > Len(ids) THEN <<>>
    ELSE (IF i \in P THEN <<ids[i]>> ELSE <<>>) \o Pick(ids, P, i + 1)

\* C6 amended: an accepted request runs exactly the listed existing documents
\* without a result, answers processed_count as their number and skipped_documents
\* as the title, or "Document <id>" for an empty title, of each listed existing
\* document with a result; a request that leaves nothing to run is answered 404
\* and is never accepted.
C6_SkippedReportedWhenAccepted ==
    /\ [](Receiving =>
             \A req \in SelRequests :
                ByIdsDefault(req)
                => /\ (ENABLED Classify_NotFound(req)) <=> Listed(req, FALSE) = {}
                   /\ (ENABLED Classify_Submit(req)) <=> Listed(req, FALSE) # {})
    /\ [][AcceptsByIds =>
            LET req == handler'.classification_request
            IN /\ Listed(req, FALSE) # {}
               /\ handler'.documents = Pick(req.document_ids, Listed(req, FALSE), 1)
               /\ Accepted.processed_count = Cardinality(Listed(req, FALSE))
               /\ Len(Accepted.skipped_documents) = Cardinality(Listed(req, TRUE))
               /\ \A i \in Listed(req, TRUE) :
                     /\ req.document_ids[i] \notin Range(handler'.documents)
                     /\ (IF documents[req.document_ids[i]] = ""
                         THEN DocumentLabel[req.document_ids[i]]
                         ELSE documents[req.document_ids[i]])
                            \in Range(Accepted.skipped_documents)]_vars

C6_Witness ==
    /\ handler.pc = "reset"
    /\ ByIdsDefault(handler.classification_request)
    /\ Len(handler.classification_request.document_ids) = 3
    /\ Len(handler.documents) = 2
    /\ Len(handler.already_classified) = 1
    /\ work_queue # <<>>

(***************************************************************************)
(* One document through the worker with the LLM's three answers scripted.  *)
(***************************************************************************)
InitPipeline ==
    /\ documents = [d \in DocIds |-> "Guide"]
    /\ classification_results \in {{}, {StoredRow(1)}}
    /\ next_result_id = 2
    /\ classification_progress =
           [total_documents |-> 1, processed_documents |-> 0,
            status |-> "initializing", started_at |-> 1, completed_at |-> None]
    /\ work_queue = <<[documents |-> <<1>>, user_id |-> 2, run |-> 1]>>
    /\ threads = [t \in 1..max_workers |-> IdleThread]
    /\ handler = IdleHandler
    /\ clock = 2
    /\ requests_made = 1
    /\ proc_queue = <<>>
    /\ proc_threads = [t \in 1..proc_max_workers |-> IdleProcThread]
    /\ proc_requests_made = 0
    /\ llm \in [extract : Responses, custom : Responses, keywords : Responses]
    /\ LibIdle

SpecPipeline ==
    InitPipeline /\ [][Workers({llm.extract}, {llm.custom}, {llm.keywords})]_vars

\* C9: every stored result_json has arrays as 'requirements' and 'keywords'.
C9_StoredResultHasArrays ==
    \A r \in classification_results :
        /\ r.result_json.requirements \in JsonArrays
        /\ r.result_json.keywords \in JsonArrays

\* the other two stages answer with an object of the expected shape
StagesHealthy == {"NOKEY", "EMPTY", "LIST"}

\* C10: when the extract call raises or answers non-JSON, classify_document still
\* returns requirements == [] with the keyword stage's list, and the result is
\* written for the document.
C10_ExtractFailureStillStored ==
    (/\ llm.extract \in {"RAISE", "NONJSON"}
     /\ llm.custom \in StagesHealthy
     /\ llm.keywords \in StagesHealthy)
    => \A t \in DOMAIN threads :
          /\ threads[t].pc = "store" =>
                /\ threads[t].classification_result.requirements = PyEmptyList
                /\ threads[t].classification_result.keywords
                       = _extract_keywords(llm.keywords).value
          /\ (threads[t].pc = "loop" /\ threads[t].idx = 1) =>
                \E r \in classification_results :
                    /\ r.document_id = 1
                    /\ r.created_at = clock
                    /\ r.result_json.keywords
                           = json_dumps_value(_extract_keywords(llm.keywords).value)

(***************************************************************************)
(* The per-document try block of the worker loop.                          *)
(***************************************************************************)
\* thread t is inside the loop of a run with its next document still to come
InLoop(t) == threads[t].pc = "loop" /\ threads[t].idx < Len(threads[t].documents)

\* the step is the except branch of thread t: the pipeline raised for CurrentDoc(t)
Raises(t) == \E e \in RunExtract, c \in RunCustom, k \in RunKeywords :
                Worker_Exception(t, e, c, k)

MaxRawLen == 6

Tokens == {"{", "}", "m", "n", " ", "p"}

Texts == SeqsUpTo(Tokens, MaxRawLen)

\* str.find: the 0-based index of the first ch, -1 when there is none
find(raw, ch) ==
    IF \E i \in DOMAIN raw : raw[i] = ch
    THEN (CHOOSE i \in DOMAIN raw : raw[i] = ch /\ \A j \in 1..(i - 1) : raw[j] # ch) - 1
    ELSE -1

\* str.rfind: the 0-based index of the last ch, -1 when there is none
rfind(raw, ch) ==
    IF \E i \in DOMAIN raw : raw[i] = ch
    THEN (CHOOSE i \in DOMAIN raw :
              raw[i] = ch /\ \A j \in (i + 1)..Len(raw) : raw[j] # ch) - 1
    ELSE -1

\* raw[start:end] for start, end >= 0
Slice(raw, start, end) == SubSeq(raw, start + 1, IF end > Len(raw) THEN Len(raw) ELSE end)

AllSpace(s, from, to) == \A j \in from..to : s[j] = " "

\* re.sub(r"\}\s*\}\s*$", "}", s): the one place where the pattern matches is a
\* "}" followed, up to the end, by white space, another "}" and white space
sub_closing(s) ==
    LET M == {i \in DOMAIN s :
                /\ s[i] = "}"
                /\ \E j \in (i + 1)..Len(s) :
                      /\ s[j] = "}"
                      /\ AllSpace(s, i + 1, j - 1)
                      /\ AllSpace(s, j + 1, Len(s))}
    IN IF M = {} THEN s
       ELSE LET i == CHOOSE x \in M : \A y \in M : x <= y
            IN SubSeq(s, 1, i - 1) \o <<"}">>

normalize_json(raw) ==
    LET start == find(raw, "{")
        end == rfind(raw, "}") + 1
    IN IF start = -1 \/ end = -1
       THEN raw
       ELSE sub_closing(Slice(raw, start, end))

\* json.loads: white space around the value is skipped
RECURSIVE Strip(_)
Strip(s) ==
    IF s = <<>> THEN s
    ELSE IF Head(s) = " " THEN Strip(Tail(s))
    ELSE IF s[Len(s)] = " " THEN Strip(SubSeq(s, 1, Len(s) - 1))
    ELSE s

JSONDecodeError == <<"JSONDecodeError">>

\* json.loads of a text: the object without its white space, or the error
RECURSIVE json_loads(_)
json_loads(s) ==
    LET t == Strip(s)
    IN IF Len(t) < 2 \/ t[1] # "{" \/ t[Len(t)] # "}" THEN JSONDecodeError
       ELSE LET inner == Strip(SubSeq(t, 2, Len(t) - 1))
            IN IF inner = <<>> THEN <<"{", "}">>
               ELSE IF inner = <<"m">> THEN <<"{", "m", "}">>
               ELSE IF Head(inner) = "n"
               THEN LET v == json_loads(Tail(inner))
                    IN IF v = JSONDecodeError THEN JSONDecodeError
                       ELSE <<"{", "n">> \o v \o <<"}">>
               ELSE JSONDecodeError

Normalize_Call ==
    /\ normalize_call.pc = "idle"
    /\ normalize_call' = [normalize_call EXCEPT
           !.pc = "returned",
           !.json_candidate = normalize_json(normalize_call.raw)]
    /\ UNCHANGED <<classifierVars, rest_normalize_call>>

Normalize_Parse ==
    /\ normalize_call.pc = "returned"
    /\ normalize_call' = [normalize_call EXCEPT
           !.pc = "parsed",
           !.json_candidate = json_loads(normalize_call.json_candidate)]
    /\ UNCHANGED <<classifierVars, rest_normalize_call>>

InitNormalize ==
    /\ ClassifierInit
    /\ \E raw \in Texts : normalize_call = [IdleNormalize EXCEPT !.raw = raw]
    /\ RestIdle_normalize_call

NextNormalize ==
    \/ Normalize_Call
    \/ Normalize_Parse

SpecNormalize == InitNormalize /\ [][NextNormalize]_vars

\* the places where raw splits into brace-free junk, a JSON object text and a
\* tail of extra closing braces
Wrappings(raw) ==
    {w \in (0..Len(raw)) \X (0..Len(raw)) :
        /\ w[1] < w[2] /\ w[2] < Len(raw)
        /\ \A j \in 1..w[1] : raw[j] \notin {"{", "}"}
        /\ raw[w[1] + 1] = "{"
        /\ json_loads(SubSeq(raw, w[1] + 1, w[2])) # JSONDecodeError
        /\ \A j \in (w[2] + 1)..Len(raw) : raw[j] = "}"}

\* C12: normalize_json of a JSON object text preceded by brace-free junk and
\* followed by extra closing braces returns a text that parses to that object.
C12_NormalizeRoundTrip ==
    normalize_call.pc = "parsed" =>
        \A w \in Wrappings(normalize_call.raw) :
            normalize_call.json_candidate
                = json_loads(SubSeq(normalize_call.raw, w[1] + 1, w[2]))

(***************************************************************************)
(* normalize_enum_input.  A string is a sequence of tokens: a word in one  *)
(* spelling of its letters' case, or one of the separators " ", "-", "_".  *)
(***************************************************************************)
MaxEnumLen == 3

\* str.lower on a word
LowerWord(w) ==
    CASE w = "Development" -> "development"
      [] w = "DEVELOPMENT" -> "development"
      [] w = "Engineer" -> "engineer"
      [] w = "Security" -> "security"
      [] w = "Architect" -> "architect"
      [] w = "Quality" -> "quality"
      [] w = "Assurance" -> "assurance"
      [] w = "Regulatory" -> "regulatory"
      [] w = "Affairs" -> "affairs"
      [] w = "Product" -> "product"
      [] w = "Manager" -> "manager"
      [] w = "Operations" -> "operations"
      [] w = "Incident" -> "incident"
      [] w = "Response" -> "response"
      [] w = "Specialist" -> "specialist"
      [] w = "Other" -> "other"
      [] OTHER -> w

lower(s) == [i \in DOMAIN s |-> LowerWord(s[i])]

\* .replace(" ", "").replace("-", "_")
RECURSIVE clean_separators(_)
clean_separators(s) ==
    IF s = <<>> THEN <<>>
    ELSE (CASE Head(s) = " " -> <<>>
            [] Head(s) = "-" -> <<"_">>
            [] OTHER -> <<Head(s)>>) \o clean_separators(Tail(s))

cleaned(s) == clean_separators(lower(s))

\* RoleEnum, in definition order
RoleEnum ==
    << [name |-> <<"dev", "_", "engineer">>, value |-> <<"Development", " ", "Engineer">>],
       [name |-> <<"security", "_", "architect">>, value |-> <<"Security", " ", "Architect">>],
       [name |-> <<"qa", "_", "engineer">>, value |-> <<"Quality", " ", "Assurance">>],
       [name |-> <<"regulatory", "_", "affairs">>, value |-> <<"Regulatory", " ", "Affairs">>],
       [name |-> <<"product", "_", "manager">>, value |-> <<"Product", " ", "Manager">>],
       [name |-> <<"ops", "_", "engineer">>, value |-> <<"Operations", " ", "Engineer">>],
       [name |-> <<"incident", "_", "responder">>,
        value |-> <<"Incident", " ", "Response", " ", "Specialist">>],
       [name |-> <<"other">>, value |-> <<"Other">>],
       [name |-> <<"unknown">>, value |-> <<"unknown">>] >>

EnumUnknown == <<"unknown">>

normalize_enum_input(input_value, enum_cls) ==
    LET cleaned_input == cleaned(input_value)
        hits == {i \in DOMAIN enum_cls :
                    \/ cleaned_input = cleaned(enum_cls[i].name)
                    \/ cleaned_input = cleaned(enum_cls[i].value)}
    IN IF hits = {} THEN EnumUnknown
       ELSE enum_cls[CHOOSE i \in hits : \A j \in hits : i <= j].value

EnumTokens ==
    {"Development", "development", "DEVELOPMENT", "dev", "Engineer", "engineer",
     "Other", "other", " ", "-", "_"}

EnumInputs == SeqsUpTo(EnumTokens, MaxEnumLen)

Enum_Call ==
    /\ enum_call.pc = "idle"
    /\ enum_call' = [enum_call EXCEPT
           !.pc = "returned",
           !.result = normalize_enum_input(enum_call.input_value, RoleEnum)]
    /\ UNCHANGED <<classifierVars, rest_enum_call>>

InitEnum ==
    /\ ClassifierInit
    /\ \E v \in EnumInputs : enum_call = [IdleEnum EXCEPT !.input_value = v]
    /\ RestIdle_enum_call

SpecEnum == InitEnum /\ [][Enum_Call]_vars

\* a spelling with its letters in lower case and its separators taken out
RECURSIVE drop_separators(_)
drop_separators(s) ==
    IF s = <<>> THEN <<>>
    ELSE (IF Head(s) \in {" ", "-", "_"} THEN <<>> ELSE <<Head(s)>>)
         \o drop_separators(Tail(s))

SameSpelling(a, b) == drop_separators(lower(a)) = drop_separators(lower(b))

\* C13: two spellings that differ only in letter case, spaces, hyphens and
\* underscores resolve to the same enum value ("Development Engineer" and
\* "development_engineer" among them).
C13_EnumSpellingsAgree ==
    enum_call.pc = "returned" =>
        \A other \in EnumInputs :
            SameSpelling(other, enum_call.input_value)
            => normalize_enum_input(other, RoleEnum) = enum_call.result

(***************************************************************************)
(* cluster_documents over the process_documents table and the persistent   *)
(* vector index of proc_indexer.                                           *)
(***************************************************************************)
NumProcDocs == 3

MaxClusterRuns == 2

similarity_top_k == 5

ProcDocIds == 1..NumProcDocs

\* the documents a ProcessCluster holds: ProcessCluster.documents
ClusterMembers(c) ==
    {d \in DOMAIN process_documents : process_documents[d] = c}

\* POST /proc/process stores a new ProcessDocument, not yet in a cluster
Proc_AddDocument(d) ==
    /\ d \notin DOMAIN process_documents
    /\ process_documents' =
           [x \in DOMAIN process_documents \cup {d} |->
               IF x = d THEN None ELSE process_documents[x]]
    /\ UNCHANGED <<process_clusters, proc_index, cluster_run>>
    /\ UNCHANGED <<classifierVars, rest_cluster>>

\* lines 112-114: nothing without a cluster
Cluster_Nothing ==
    /\ cluster_run.pc = "idle"
    /\ cluster_run.calls < MaxClusterRuns
    /\ {d \in DOMAIN process_documents : process_documents[d] = None} = {}
    /\ cluster_run' = [cluster_run EXCEPT !.calls = @ + 1, !.returned = <<>>]
    /\ UNCHANGED <<process_documents, process_clusters, proc_index>>
    /\ UNCHANGED <<classifierVars, rest_cluster>>

\* lines 112-123: select the documents without a cluster and insert them into the
\* index; store_index logs and swallows a failure of the insert
Cluster_Start(stored) ==
    /\ cluster_run.pc = "idle"
    /\ cluster_run.calls < MaxClusterRuns
    /\ LET docs == {d \in DOMAIN process_documents : process_documents[d] = None}
       IN /\ docs # {}
          /\ proc_index' = IF stored THEN proc_index \cup docs ELSE proc_index
          /\ cluster_run' = [cluster_run EXCEPT
                 !.pc = "loop", !.calls = @ + 1, !.docs = SetToSortedSeq(docs),
                 !.i = 1, !.clustered = {}, !.clusters = <<>>, !.returned = <<>>]
    /\ UNCHANGED <<process_documents, process_clusters>>
    /\ UNCHANGED <<classifierVars, rest_cluster>>

\* lines 125-128: the document is already in a cluster of this run
Cluster_Skip ==
    /\ cluster_run.pc = "loop"
    /\ cluster_run.i <= Len(cluster_run.docs)
    /\ cluster_run.docs[cluster_run.i] \in cluster_run.clustered
    /\ cluster_run' = [cluster_run EXCEPT !.i = @ + 1]
    /\ UNCHANGED <<process_documents, process_clusters, proc_index>>
    /\ UNCHANGED <<classifierVars, rest_cluster>>

\* a loop body that adds every result scoring above the threshold
Cluster_RetrieveAll(results) ==
    /\ cluster_run.pc = "loop"
    /\ cluster_run.i <= Len(cluster_run.docs)
    /\ cluster_run.docs[cluster_run.i] \notin cluster_run.clustered
    /\ results \subseteq proc_index
    /\ Cardinality(results) <= similarity_top_k
    /\ cluster_run' = [cluster_run EXCEPT
           !.i = @ + 1,
           !.clustered = @ \cup results,
           !.clusters = IF results = {} THEN @
                        ELSE Append(@, SetToSortedSeq(results))]
    /\ UNCHANGED <<process_documents, process_clusters, proc_index>>
    /\ UNCHANGED <<classifierVars, rest_cluster>>

\* lines 129-138: results are the nodes of the index that the retriever returns
\* for the document's text with a score at or above the threshold
Cluster_Retrieve(results) ==
    /\ cluster_run.pc = "loop"
    /\ cluster_run.i <= Len(cluster_run.docs)
    /\ cluster_run.docs[cluster_run.i] \notin cluster_run.clustered
    /\ results \subseteq proc_index
    /\ Cardinality(results) <= similarity_top_k
    /\ LET cluster_ids == results \ cluster_run.clustered
       IN cluster_run' = [cluster_run EXCEPT
              !.i = @ + 1,
              !.clustered = @ \cup cluster_ids,
              !.clusters = IF cluster_ids = {} THEN @
                           ELSE Append(@, SetToSortedSeq(cluster_ids))]
    /\ UNCHANGED <<process_documents, process_clusters, proc_index>>
    /\ UNCHANGED <<classifierVars, rest_cluster>>

\* lines 140-152: one new ProcessCluster per list, its id written to every member
Cluster_Commit ==
    /\ cluster_run.pc = "loop"
    /\ cluster_run.i > Len(cluster_run.docs)
    /\ LET clusters == cluster_run.clusters
           n == Cardinality(process_clusters)
           lists(d) == {j \in DOMAIN clusters : d \in Range(clusters[j])}
       IN /\ process_clusters' = process_clusters \cup {n + j : j \in DOMAIN clusters}
          /\ process_documents' =
                 [d \in DOMAIN process_documents |->
                     IF lists(d) = {} THEN process_documents[d]
                     ELSE n + (CHOOSE j \in lists(d) : \A k \in lists(d) : k <= j)]
          /\ cluster_run' = [cluster_run EXCEPT
                 !.pc = "idle", !.docs = <<>>, !.i = 0, !.clustered = {},
                 !.clusters = <<>>, !.returned = clusters]
    /\ UNCHANGED proc_index
    /\ UNCHANGED <<classifierVars, rest_cluster>>

InitCluster ==
    /\ ClassifierInit
    /\ process_documents = IdleProcessDocuments
    /\ process_clusters = IdleProcessClusters
    /\ proc_index = IdleProcIndex
    /\ cluster_run = IdleClusterRun
    /\ RestIdle_cluster

NextCluster ==
    \/ \E d \in ProcDocIds : Proc_AddDocument(d)
    \/ Cluster_Nothing
    \/ \E stored \in BOOLEAN : Cluster_Start(stored)
    \/ Cluster_Skip
    \/ \E results \in SUBSET ProcDocIds : Cluster_Retrieve(results)
    \/ Cluster_Commit

SpecCluster == InitCluster /\ [][NextCluster]_vars

\* the ids of the lists in cs, with their multiplicity
RECURSIVE Flatten(_)
Flatten(cs) == IF cs = <<>> THEN <<>> ELSE Head(cs) \o Flatten(Tail(cs))

NoRepeats(s) == \A i, j \in DOMAIN s : i # j => s[i] # s[j]

\* C14: no ProcessDocument is a member of more than one ProcessCluster, and no
\* document id is in more than one of the cluster lists one run builds and returns.
C14_ClustersExclusive ==
    /\ \A c1, c2 \in process_clusters :
          c1 # c2 => ClusterMembers(c1) \cap ClusterMembers(c2) = {}
    /\ NoRepeats(Flatten(cluster_run.clusters))
    /\ NoRepeats(Flatten(cluster_run.returned))

\* a run has returned two clusters, one of them with two members
C14_Witness ==
    /\ cluster_run.pc = "idle"
    /\ Len(cluster_run.returned) = 2
    /\ \E j \in DOMAIN cluster_run.returned : Len(cluster_run.returned[j]) = 2
    /\ \E c \in process_clusters : Cardinality(ClusterMembers(c)) = 2

\* C15: a document that has a cluster_id is never moved into another cluster by
\* a later run.
C15_ClusteredDocumentsStay ==
    [][\A d \in DOMAIN process_documents :
          process_documents[d] # None => process_documents'[d] = process_documents[d]]_vars

(***************************************************************************)
(* Crawler._split_document and _split_content_by_type.                     *)
(*                                                                         *)
(* A text is a sequence of pieces, each with its length in characters:     *)
(* a newline, a run of non-blank characters of one page (or of the HTML    *)
(* body), or one of the markers the crawler writes around page and         *)
(* chapter text.                                                           *)
(***************************************************************************)
MaxPages == 2

MaxToc == 2

MaxContentLen == 5

NL == [k |-> "nl", p |-> 0, j |-> 0, n |-> 1]

Text(p, j, n) == [k |-> "text", p |-> p, j |-> j, n |-> n]

\* "[PAGE_0]" has 8 characters, "[/PAGE_0]" 9, "[CHAPTER: T]" and "[SECTION: T]" 12
Mark(kind, p) ==
    [k |-> kind, p |-> p, j |-> 0,
     n |-> CASE kind = "open" -> 8 [] kind = "close" -> 9 [] OTHER -> 12]

RECURSIVE len(_)
len(s) == IF s = <<>> THEN 0 ELSE Head(s).n + len(Tail(s))

\* str.strip
RECURSIVE strip(_)
strip(s) ==
    IF s = <<>> THEN s
    ELSE IF Head(s).k = "nl" THEN strip(Tail(s))
    ELSE IF s[Len(s)].k = "nl" THEN strip(SubSeq(s, 1, Len(s) - 1))
    ELSE s

\* str.split("\n\n"), cur being the part read since the last separator
RECURSIVE split_paras(_, _)
split_paras(s, cur) ==
    IF s = <<>> THEN <<cur>>
    ELSE IF Len(s) >= 2 /\ s[1].k = "nl" /\ s[2].k = "nl"
    THEN <<cur>> \o split_paras(Tail(Tail(s)), <<>>)
    ELSE split_paras(Tail(s), Append(cur, Head(s)))

\* lines 323-340 and 357-364: paragraphs are joined into the running chunk, which
\* is flushed when the next paragraph would not fit
RECURSIVE join_paras(_, _, _)
join_paras(paras, current, max_size) ==
    IF paras = <<>> THEN (IF current # <<>> THEN <<current>> ELSE <<>>)
    ELSE LET para == Head(paras)
         IN IF len(current) + len(para) > max_size /\ current # <<>>
            THEN <<current>> \o join_paras(Tail(paras), para, max_size)
            ELSE join_paras(Tail(paras), strip(current \o <<NL, NL>> \o para), max_size)

\* lines 345-352: pages are appended to the running chunk
RECURSIVE join_pages(_, _, _)
join_pages(pages, current, max_size) ==
    IF pages = <<>> THEN (IF current # <<>> THEN <<current>> ELSE <<>>)
    ELSE LET page == Head(pages)
         IN IF len(current) + len(page) > max_size /\ current # <<>>
            THEN <<current>> \o join_pages(Tail(pages), page, max_size)
            ELSE join_pages(Tail(pages), current \o page, max_size)

\* re.split(r"\[/PAGE_\d+\]\n", content) followed by filter(str.strip, ...)
RECURSIVE split_pages(_, _)
split_pages(s, cur) ==
    IF s = <<>> THEN (IF strip(cur) = <<>> THEN <<>> ELSE <<cur>>)
    ELSE IF Len(s) >= 2 /\ s[1].k = "close" /\ s[2].k = "nl"
    THEN (IF strip(cur) = <<>> THEN <<>> ELSE <<cur>>)
         \o split_pages(Tail(Tail(s)), <<>>)
    ELSE split_pages(Tail(s), Append(cur, Head(s)))

\* lines 367-370: slices of max_size characters (of one-character pieces)
RECURSIVE slices(_, _)
slices(content, max_size) ==
    IF content = <<>> THEN <<>>
    ELSE IF Len(content) <= max_size THEN <<content>>
    ELSE <<SubSeq(content, 1, max_size)>>
         \o slices(SubSeq(content, max_size + 1, Len(content)), max_size)

\* _extract_pdf_text: every page between its markers
RECURSIVE _extract_pdf_text(_, _)
_extract_pdf_text(pdf, page_num) ==
    IF page_num >= Len(pdf) THEN <<>>
    ELSE <<Mark("open", page_num), NL>> \o pdf[page_num + 1]
         \o <<NL, Mark("close", page_num), NL>>
         \o _extract_pdf_text(pdf, page_num + 1)

\* _extract_pdf_toc: each entry with the text of the page its number indexes
_extract_pdf_toc(pdf, toc) ==
    [e \in DOMAIN toc |->
        [level |-> toc[e].level, page_num |-> toc[e].page_num,
         text |-> IF 0 <= toc[e].page_num /\ toc[e].page_num < Len(pdf)
                  THEN pdf[toc[e].page_num + 1] ELSE <<>>]]

NoChapter == <<>>

\* a chapter loop that adds the page text of every entry
RECURSIVE build_chapters_all(_, _, _, _)
build_chapters_all(toc_info, chapters, current, processed_pages) ==
    IF toc_info = <<>>
    THEN chapters \o current
    ELSE LET entry == Head(toc_info)
         IN IF entry.level = 1
            THEN build_chapters_all(Tail(toc_info), chapters \o current,
                     <<<<Mark("chapter", 0), NL>> \o entry.text>>, processed_pages)
            ELSE IF current # NoChapter
            THEN build_chapters_all(Tail(toc_info), chapters,
                     <<current[1] \o <<NL, Mark("section", 0), NL>> \o entry.text>>,
                     processed_pages)
            ELSE build_chapters_all(Tail(toc_info), chapters, current, processed_pages)

\* lines 283-309: current is <<>> for None and <<content>> for a chapter
RECURSIVE build_chapters(_, _, _, _)
build_chapters(toc_info, chapters, current, processed_pages) ==
    IF toc_info = <<>>
    THEN chapters \o current
    ELSE LET entry == Head(toc_info)
             fresh == entry.page_num \notin processed_pages
             text == IF fresh THEN entry.text ELSE <<>>
             seen == processed_pages \cup {entry.page_num}
         IN IF entry.level = 1
            THEN build_chapters(Tail(toc_info), chapters \o current,
                     <<<<Mark("chapter", 0), NL>> \o text>>, seen)
            ELSE IF current # NoChapter
            THEN build_chapters(Tail(toc_info), chapters,
                     <<current[1] \o <<NL, Mark("section", 0), NL>> \o text>>, seen)
            ELSE build_chapters(Tail(toc_info), chapters, current, processed_pages)

\* lines 315-340: a chapter that fits is one chunk, a longer one is cut at "\n\n"
RECURSIVE split_chapters(_, _)
split_chapters(chapters, max_size) ==
    IF chapters = <<>> THEN <<>>
    ELSE (IF len(Head(chapters)) <= max_size THEN <<Head(chapters)>>
          ELSE join_paras(split_paras(Head(chapters), <<>>), <<>>, max_size))
         \o split_chapters(Tail(chapters), max_size)

_split_content_by_type(content, source_type, max_size, toc_info) ==
    IF source_type = "PDF" /\ toc_info # <<>>
    THEN split_chapters(build_chapters(toc_info, <<>>, NoChapter, {}), max_size)
    ELSE IF source_type = "PDF"
    THEN join_pages(split_pages(content, <<>>), <<>>, max_size)
    ELSE IF source_type = "HTML"
    THEN join_paras(split_paras(content, <<>>), <<>>, max_size)
    ELSE slices(content, max_size)

\* lines 214-242: the contents of the Documents returned
_split_document(content, source_type, max_size, toc_info) ==
    IF len(content) <= max_size THEN <<content>>
    ELSE _split_content_by_type(content, source_type, max_size, toc_info)


MaxSizes == {4, 16}

\* the texts PyMuPDF can return for page p: nothing, one run of characters, the
\* run with a trailing newline, two paragraphs
PageTexts(p) ==
    { <<>>,
      <<Text(p, 1, 3)>>,
      <<Text(p, 1, 3), NL>>,
      <<Text(p, 1, 3), NL, NL, Text(p, 2, 3)>> }

Pdfs ==
    UNION {{pdf \in [1..k -> UNION {PageTexts(p) : p \in 1..k}] :
               \A p \in 1..k : pdf[p] \in PageTexts(p)} : k \in 1..MaxPages}

\* pdf_document.get_toc(): level and page number of each entry
TocEntries == [level : {1, 2}, page_num : 0..MaxPages]

Tocs == SeqsUpTo(TocEntries, MaxToc)

HtmlContents == SeqsUpTo({NL, Text(0, 0, 1), Text(0, 0, 3)}, MaxContentLen)

OtherContents == SeqsUpTo({NL, Text(0, 0, 1)}, MaxContentLen)

Split_Document ==
    /\ splitter.pc = "idle"
    /\ splitter' = [splitter EXCEPT
           !.pc = "returned",
           !.chunks = _split_document(splitter.content, splitter.source_type,
                          splitter.max_size,
                          _extract_pdf_toc(splitter.pdf, splitter.toc))]
    /\ UNCHANGED <<classifierVars, rest_splitter>>

InitSplit ==
    /\ ClassifierInit
    /\ RestIdle_splitter
    /\ \E max_size \in MaxSizes :
          \/ \E pdf \in Pdfs, toc \in Tocs :
                splitter = [IdleSplitter EXCEPT
                    !.source_type = "PDF", !.pdf = pdf, !.toc = toc,
                    !.content = _extract_pdf_text(pdf, 0), !.max_size = max_size]
          \/ \E content \in HtmlContents :
                splitter = [IdleSplitter EXCEPT
                    !.source_type = "HTML", !.content = content,
                    !.max_size = max_size]
          \/ \E content \in OtherContents :
                splitter = [IdleSplitter EXCEPT
                    !.source_type = "PLAIN", !.content = content,
                    !.max_size = max_size]

SpecSplit == InitSplit /\ [][Split_Document]_vars

\* the splitter was called: the content did not fit into one Document
WasSplit == splitter.pc = "returned" /\ len(splitter.content) > splitter.max_size

TocSplit == WasSplit /\ splitter.source_type = "PDF" /\ splitter.toc # <<>>

\* the chunk is one atomic unit of its strategy: one page of the page split, one
\* paragraph (or a chapter without a paragraph break) of the paragraph splits
SingleUnit(chunk) ==
    IF splitter.source_type = "PDF" /\ splitter.toc = <<>>
    THEN Cardinality({i \in DOMAIN chunk : chunk[i].k = "open"}) = 1
    ELSE IF splitter.source_type \in {"PDF", "HTML"}
    THEN Len(split_paras(chunk, <<>>)) = 1
    ELSE FALSE

\* C16: a chunk is longer than max_size only when it is a single atomic unit
\* that by itself exceeds max_size.
C16_ChunksWithinBudget ==
    splitter.pc = "returned" =>
        \A c \in DOMAIN splitter.chunks :
            len(splitter.chunks[c]) > splitter.max_size
            => SingleUnit(splitter.chunks[c])

IsText(x) == x.k = "text"

\* the characters of a text that are neither newlines nor markers
TextOnly(s) == SelectSeq(s, IsText)

\* C17: the chunks in emitted order hold all of the source text, for each
\* splitting strategy; in the TOC-based split every page is in a chunk.
C17_ChunksRecoverSource ==
    splitter.pc = "returned" =>
        TextOnly(Flatten(splitter.chunks)) = TextOnly(splitter.content)

\* C18: in the TOC-based split the text of a page is in the chunks at most once.
C18_PageTextAtMostOnce ==
    TocSplit => NoRepeats(TextOnly(Flatten(splitter.chunks)))

\* two TOC entries, a chapter and its section, start on the same page, whose text
\* is in the chunks
C18_Witness ==
    /\ TocSplit
    /\ Len(splitter.toc) = 2
    /\ splitter.toc[1].level = 1
    /\ splitter.toc[2].level = 2
    /\ splitter.toc[1].page_num = splitter.toc[2].page_num
    /\ splitter.toc[1].page_num < Len(splitter.pdf)
    /\ TextOnly(Flatten(splitter.chunks)) # <<>>


(***************************************************************************)
(* The crawler: run_crawler_task, Crawler.crawl, _crawl_url, _follow_links *)
(* and the upsert of the documents found (crawler/router.py 143-182,       *)
(* crawler/crawler.py 37-104, 124-168, 203-268).                           *)
(***************************************************************************)
MaxCrawlDepth == 2
MaxCrawls == 2
MaxParts == 2

\* URLs as strings of pieces; the second one ends in "_0"
Urls == {<<"a">>, <<"a", "_", "0">>, <<"b">>, <<"c">>}

\* the link structures of the site: a page linking to itself and to a cycle,
\* a chain, a page linking twice to the same page, and a page that is linked
\* from the start page and from a page the start page links to before it
Webs ==
    { [u \in Urls |->
          CASE u = <<"a">> -> <<<<"a">>, <<"b">>>>
            [] u = <<"b">> -> <<<<"a">>, <<"a", "_", "0">>>>
            [] OTHER -> <<<<"b">>>>],
      [u \in Urls |->
          CASE u = <<"a">> -> <<<<"b">>>>
            [] u = <<"b">> -> <<<<"a", "_", "0">>>>
            [] OTHER -> <<>>],
      [u \in Urls |->
          CASE u = <<"a">> -> <<<<"a", "_", "0">>, <<"a", "_", "0">>>>
            [] u = <<"b">> -> <<<<"b">>>>
            [] OTHER -> <<<<"a">>>>],
      [u \in Urls |->
          CASE u = <<"a">> -> <<<<"a", "_", "0">>, <<"b">>>>
            [] u = <<"a", "_", "0">> -> <<<<"b">>>>
            [] u = <<"b">> -> <<<<"c">>>>
            [] OTHER -> <<>>] }

\* CrawlTarget.mime_filters, crawler/models.py 10-14
mime_filters ==
    {"application/pdf", "text/html",
     "application/vnd.openxmlformats-officedocument.wordprocessingml.document"}

ContentTypes ==
    {"text/html", "application/pdf",
     "application/vnd.openxmlformats-officedocument.wordprocessingml.document",
     "image/png"}

CrawlTargets ==
    [url : Urls, depth : 0..MaxCrawlDepth, update_existing : BOOLEAN,
     max_document_size : MaxSizes]

\* what session.get returns for a page during crawl number run: its type and
\* the number of paragraphs or pages its body has
WebResponses == [content_type : ContentTypes, parts : 1..MaxParts]

\* hashlib.sha256(...).hexdigest(): one digest per string
sha256(s) == [sha256 |-> s]

\* f"{url}_{i}"
url_i(url, i) == url \o <<"_", ToString(i)>>

\* soup.get_text of a page of `parts` paragraphs served during crawl `run`
HtmlBody(run, parts) ==
    IF parts = 1 THEN <<Text(0, run, 3)>>
    ELSE [i \in 1..(3 * parts - 2) |->
             IF i % 3 = 1 THEN Text(0, run, 3) ELSE NL]

\* a PDF of `parts` pages served during crawl `run`
PdfBody(run, parts) == [p \in 1..parts |-> <<Text(p, run, 3)>>]

\* lines 203-268: the Documents made of one fetched resource
Documents(url, source_type, title, content, max_size, toc_info) ==
    LET chunks == _split_document(content, source_type, max_size, toc_info)
    IN IF len(content) <= max_size
       THEN <<[doc_id |-> sha256(url), url |-> url,
               title |-> [title |-> title, part |-> 0, of |-> 0],
               content |-> content, source_type |-> source_type]>>
       ELSE [i \in 1..Len(chunks) |->
               [doc_id |-> sha256(url_i(url, i - 1)), url |-> url,
                title |-> [title |-> title, part |-> i, of |-> Len(chunks)],
                content |-> chunks[i], source_type |-> source_type]]

\* lines 115-122: unquote(None) raises TypeError
_clean_title(title) ==
    IF title.none THEN Raised ELSE Returned(title.str)

\* the text the crawler makes of a resource it cannot read (line 153)
OtherBody == [i \in 1..5 |-> Text(0, 0, 1)]

\* lines 124-168: the HTML branch leaves original_title at None, so that
\* _clean_title raises and the handler at 166-168 returns no document
_process_document(url, response, run, target) ==
    LET title == url
        original_title == [none |-> response.content_type = "text/html", str |-> title]
    IN IF _clean_title(original_title).raised
       THEN <<>>
       ELSE IF response.content_type = "text/html"
       THEN Documents(url, "HTML", run, HtmlBody(run, response.parts),
                      target.max_document_size, <<>>)
       ELSE IF response.content_type = "application/pdf"
       THEN Documents(url, "PDF", title,
                      _extract_pdf_text(PdfBody(run, response.parts), 0),
                      target.max_document_size,
                      _extract_pdf_toc(PdfBody(run, response.parts), <<>>))
       ELSE Documents(url, "DOCUMENT", title, OtherBody,
                      target.max_document_size, <<>>)

\* lines 79-90
_should_crawl_url(url, target) ==
    ~ (/\ \E row \in document_rows : row.doc_id = sha256(url)
       /\ ~ target.update_existing)

Frame(url, depth) == [url |-> url, depth |-> depth, pc |-> "start", links |-> <<>>]

Top == crawler.stack[Len(crawler.stack)]

Pop == SubSeq(crawler.stack, 1, Len(crawler.stack) - 1)

InCall(pc) == crawler.pc = "crawling" /\ crawler.stack # <<>> /\ Top.pc = pc

\* line 52 without the test of visited_urls
TerminatesOnDepthOnly(frame) ==
    frame.depth > crawler.target.depth

\* line 52
Terminates(frame) ==
    frame.depth > crawler.target.depth \/ frame.url \in crawler.visited_urls

\* router.py 146-147, crawler.py 24-26, 37-42
Run_Crawler(target) ==
    /\ crawler.pc = "idle"
    /\ crawler.runs < MaxCrawls
    /\ crawler' = [crawler EXCEPT
           !.pc = "crawling", !.target = target, !.visited_urls = {},
           !.documents = <<>>, !.stack = <<Frame(target.url, 0)>>,
           !.runs = @ + 1]
    /\ UNCHANGED <<document_rows, web_requests, web, classifierVars, rest_crawl>>

\* lines 52-53
Crawl_Return ==
    /\ InCall("start")
    /\ Terminates(Top)
    /\ crawler' = [crawler EXCEPT !.stack = Pop]
    /\ UNCHANGED <<document_rows, web_requests, web, classifierVars, rest_crawl>>

\* lines 52-56
Crawl_Visit ==
    /\ InCall("start")
    /\ ~ Terminates(Top)
    /\ crawler' = [crawler EXCEPT
           !.visited_urls = @ \cup {Top.url},
           !.stack[Len(crawler.stack)].pc = "visited"]
    /\ UNCHANGED <<document_rows, web_requests, web, classifierVars, rest_crawl>>

\* lines 58-59
Crawl_Skip ==
    /\ InCall("visited")
    /\ ~ _should_crawl_url(Top.url, crawler.target)
    /\ crawler' = [crawler EXCEPT !.stack = Pop]
    /\ UNCHANGED <<document_rows, web_requests, web, classifierVars, rest_crawl>>

\* lines 61-74
Crawl_Fetch(response) ==
    /\ InCall("visited")
    /\ _should_crawl_url(Top.url, crawler.target)
    /\ web_requests' = Append(web_requests,
           [url |-> Top.url, depth |-> Top.depth, run |-> crawler.runs,
            raised |-> FALSE, content_type |-> response.content_type])
    /\ LET processed_docs ==
               IF response.content_type \in mime_filters
               THEN _process_document(Top.url, response, crawler.runs, crawler.target)
               ELSE <<>>
       IN crawler' = [crawler EXCEPT
              !.documents = @ \o processed_docs,
              !.stack = IF response.content_type = "text/html"
                           /\ Top.depth < crawler.target.depth
                        THEN [@ EXCEPT ![Len(crawler.stack)].pc = "links",
                                       ![Len(crawler.stack)].links = web[Top.url]]
                        ELSE Pop]
    /\ UNCHANGED <<document_rows, web, classifierVars, rest_crawl>>

\* a failing request without the handler of lines 76-77: the exception leaves
\* every call of _crawl_url and is caught in crawl()
Crawl_ErrorAborts ==
    /\ InCall("visited")
    /\ _should_crawl_url(Top.url, crawler.target)
    /\ web_requests' = Append(web_requests,
           [url |-> Top.url, depth |-> Top.depth, run |-> crawler.runs,
            raised |-> TRUE, content_type |-> ""])
    /\ crawler' = [crawler EXCEPT !.stack = <<>>]
    /\ UNCHANGED <<document_rows, web, classifierVars, rest_crawl>>

\* lines 62-63, 76-77: the request fails
Crawl_Error ==
    /\ InCall("visited")
    /\ _should_crawl_url(Top.url, crawler.target)
    /\ web_requests' = Append(web_requests,
           [url |-> Top.url, depth |-> Top.depth, run |-> crawler.runs,
            raised |-> TRUE, content_type |-> ""])
    /\ crawler' = [crawler EXCEPT !.stack = Pop]
    /\ UNCHANGED <<document_rows, web, classifierVars, rest_crawl>>

\* a loop over the links that never advances to the next link
Follow_LinkAgain ==
    /\ InCall("links")
    /\ Top.links # <<>>
    /\ crawler' = [crawler EXCEPT
           !.stack = Append(@, Frame(Head(Top.links), Top.depth + 1))]
    /\ UNCHANGED <<document_rows, web_requests, web, classifierVars, rest_crawl>>

\* lines 102-104: the next link of the page
Follow_Link ==
    /\ InCall("links")
    /\ Top.links # <<>>
    /\ crawler' = [crawler EXCEPT
           !.stack = Append([@ EXCEPT ![Len(crawler.stack)].links = Tail(Top.links)],
                            Frame(Head(Top.links), Top.depth + 1))]
    /\ UNCHANGED <<document_rows, web_requests, web, classifierVars, rest_crawl>>

\* line 102: no link is left
Follow_Done ==
    /\ InCall("links")
    /\ Top.links = <<>>
    /\ crawler' = [crawler EXCEPT !.stack = Pop]
    /\ UNCHANGED <<document_rows, web_requests, web, classifierVars, rest_crawl>>

\* router.py 149-173: the session does not flush before a query, so a row
\* added earlier in the loop is not found
RECURSIVE upsert(_, _, _)
upsert(docs, rows, added) ==
    IF docs = <<>> THEN [rows |-> rows, added |-> added]
    ELSE LET doc == Head(docs)
             existing_doc == {row \in rows : row.doc_id = doc.doc_id}
         IN IF existing_doc # {}
            THEN upsert(Tail(docs),
                     {IF row \in existing_doc
                      THEN [row EXCEPT !.title = doc.title, !.content = doc.content]
                      ELSE row : row \in rows},
                     added)
            ELSE upsert(Tail(docs), rows, Append(added, doc))

\* documents.doc_id is unique (db/models.py 50)
IntegrityError(added) ==
    \E i, j \in DOMAIN added : i # j /\ added[i].doc_id = added[j].doc_id

\* router.py 149-182
Crawl_Save ==
    /\ crawler.pc = "crawling"
    /\ crawler.stack = <<>>
    /\ LET session == upsert(crawler.documents, document_rows, <<>>)
       IN document_rows' = IF IntegrityError(session.added)
                           THEN document_rows
                           ELSE session.rows \cup Range(session.added)
    /\ crawler' = [crawler EXCEPT !.pc = "idle"]
    /\ UNCHANGED <<web_requests, web, classifierVars, rest_crawl>>

\* the documents table before the crawls: empty, or holding a page crawled earlier
StoredBefore ==
    { {},
      {[doc_id |-> sha256(<<"b">>), url |-> <<"b">>,
        title |-> [title |-> 0, part |-> 0, of |-> 0],
        content |-> <<Text(0, 0, 3)>>, source_type |-> "HTML"]} }

\* the last crawl the model follows, on a table that earlier crawls filled
InitCrawl ==
    /\ ClassifierInit
    /\ RestIdle_crawl
    /\ crawler = [IdleCrawler EXCEPT !.runs = MaxCrawls - 1]
    /\ document_rows \in StoredBefore
    /\ web_requests = <<>>
    /\ web \in Webs

\* the first crawl on an empty table, and the crawls after it
InitRecrawl ==
    /\ ClassifierInit
    /\ RestIdle_crawl
    /\ crawler = IdleCrawler
    /\ document_rows = {}
    /\ web_requests = <<>>
    /\ web \in Webs

NextCrawl ==
    \/ \E target \in CrawlTargets : Run_Crawler(target)
    \/ Crawl_Return
    \/ Crawl_Visit
    \/ Crawl_Skip
    \/ \E response \in WebResponses : Crawl_Fetch(response)
    \/ Crawl_Error
    \/ Follow_Link
    \/ Follow_Done
    \/ Crawl_Save

SpecCrawl == InitCrawl /\ [][NextCrawl]_vars

SpecRecrawl == InitRecrawl /\ [][NextCrawl]_vars


\* the rows of the documents table that come from `url`
RowsOfUrl(rows, url) == {row \in rows : row.url = url}

\* the crawl being saved found documents at its target URL, which an
\* earlier crawl had already stored, and may update what is stored
Recrawled ==
    /\ crawler.pc = "crawling"
    /\ crawler'.pc = "idle"
    /\ crawler.target.update_existing
    /\ RowsOfUrl(document_rows, crawler.target.url) # {}
    /\ \E i \in DOMAIN crawler.documents :
          crawler.documents[i].url = crawler.target.url

\* C19: re-crawling is idempotent.  When a crawl with update_existing = true
\* is saved whose target URL an earlier crawl had stored, every document the
\* crawl found at that URL has exactly one row with its doc_id, no two rows
\* share a doc_id, and every row stored for that URL holds the title and the
\* content of this second crawl.
C19_RecrawlOverwrites ==
    [][Recrawled =>
          /\ \A i \in DOMAIN crawler.documents :
                crawler.documents[i].url = crawler.target.url =>
                   Cardinality({row \in document_rows' :
                                   row.doc_id = crawler.documents[i].doc_id}) = 1
          /\ \A r1, r2 \in document_rows' : r1.doc_id = r2.doc_id => r1 = r2
          /\ \A row \in RowsOfUrl(document_rows', crawler.target.url) :
                \E i \in DOMAIN crawler.documents :
                   /\ crawler.documents[i].doc_id = row.doc_id
                   /\ crawler.documents[i].title = row.title
                   /\ crawler.documents[i].content = row.content]_vars

\* the session.get calls of the crawl in progress
RequestsOfRun == {i \in DOMAIN web_requests : web_requests[i].run = crawler.runs}

\* C20: within one crawl every URL is fetched at most once and only at a
\* depth <= target.depth, whatever cycles the links form, and a URL is in
\* visited_urls before anything else is done with it: before the table is
\* asked about it, before it is fetched, before a document is made of it.
C20_FetchedOnceWithinDepth ==
    /\ [](/\ \A i, j \in RequestsOfRun :
                web_requests[i].url = web_requests[j].url => i = j
          /\ \A i \in RequestsOfRun :
                web_requests[i].depth <= crawler.target.depth
          /\ \A k \in DOMAIN crawler.stack :
                crawler.stack[k].pc # "start" =>
                   crawler.stack[k].url \in crawler.visited_urls)
    /\ [][(web_requests' # web_requests \/ crawler'.documents # crawler.documents)
             /\ crawler.pc = "crawling"
          => /\ crawler.stack # <<>>
             /\ Top.url \in crawler.visited_urls]_vars

\* a link leads back to a page that is still being crawled and was fetched:
\* the call for it is about to return at line 53
C20_Witness ==
    /\ InCall("start")
    /\ Top.depth <= crawler.target.depth
    /\ Top.url \in crawler.visited_urls
    /\ \E k \in 1..(Len(crawler.stack) - 1) : crawler.stack[k].url = Top.url
    /\ \E i \in RequestsOfRun : web_requests[i].url = Top.url


\* C21: with update_existing = false, a URL that has a document in the
\* documents table is never fetched, whether the table holds it as one
\* Document or as split parts.
C21_StoredNeverFetched ==
    [][(web_requests' # web_requests /\ ~ crawler.target.update_existing)
          => RowsOfUrl(document_rows, Top.url) = {}]_vars


\* the step is a session.get that raised
FetchRaised ==
    /\ web_requests' # web_requests
    /\ web_requests'[Len(web_requests')].raised

\* C22: a transport error aborts only the branch of the URL that failed.  The
\* failing call returns to its caller with the documents found so far and
\* the remaining links of the parent page untouched; the loop over a page's
\* links ends only when no link is left; the documents found are never
\* dropped, and the crawl is over only when every call has returned.
C22_ErrorAbortsOnlyBranch ==
    [][/\ FetchRaised =>
             /\ crawler'.pc = "crawling"
             /\ crawler'.stack = Pop
             /\ crawler'.documents = crawler.documents
       /\ (InCall("links") /\ Len(crawler'.stack) < Len(crawler.stack))
             => Top.links = <<>>
       /\ (crawler.pc = "crawling" /\ crawler'.pc = "crawling")
             => SubSeq(crawler'.documents, 1, Len(crawler.documents))
                   = crawler.documents
       /\ (crawler.pc = "crawling" /\ crawler'.pc = "idle")
             => /\ crawler.stack = <<>>
                /\ crawler'.documents = crawler.documents]_vars

\* the crawl is over; the request for one link of a page failed, the request
\* for a later link of the same depth succeeded and its document was returned
C22_Witness ==
    /\ crawler.pc = "idle"
    /\ \E i, j \in RequestsOfRun :
          /\ i < j
          /\ web_requests[i].raised
          /\ ~ web_requests[j].raised
          /\ web_requests[i].depth = 1
          /\ web_requests[j].depth = 1
          /\ \E d \in DOMAIN crawler.documents :
                crawler.documents[d].url = web_requests[j].url

\* C23: every successfully fetched resource whose content type is in
\* mime_filters adds at least one Document of its URL to the crawl's documents.
C23_FetchedYieldsDocument ==
    [][(/\ web_requests' # web_requests
        /\ ~ web_requests'[Len(web_requests')].raised
        /\ web_requests'[Len(web_requests')].content_type \in mime_filters)
       => \E d \in DOMAIN crawler'.documents :
             /\ d > Len(crawler.documents)
             /\ crawler'.documents[d].url = Top.url]_vars

\* the documents the crawl made of `url`
DocumentsOf(url) ==
    {d \in DOMAIN crawler.documents : crawler.documents[d].url = url}

\* C25: a Document has the "(Part i/N)" suffix exactly when the content of its
\* URL came out as more than one piece (no chunk has a title of its own here:
\* no resource has a table of contents).
C25_PartSuffixIffSplit ==
    \A d \in DOMAIN crawler.documents :
        (crawler.documents[d].title.part # 0)
           <=> Cardinality(DocumentsOf(crawler.documents[d].url)) > 1


\* the steps of a crawl that has been started: each of them is a piece of
\* sequential code, a request that returns or fails included
CrawlStep ==
    \/ Crawl_Return
    \/ Crawl_Visit
    \/ Crawl_Skip
    \/ \E response \in WebResponses : Crawl_Fetch(response)
    \/ Crawl_Error
    \/ Follow_Link
    \/ Follow_Done
    \/ Crawl_Save

\* the last crawl, on a table that holds a page crawled earlier
InitCrawlLive == InitCrawl /\ document_rows # {}

SpecCrawlLive == InitCrawlLive /\ [][NextCrawl]_vars /\ WF_vars(CrawlStep)

\* C27: a crawl that was started terminates: every call of _crawl_url returns,
\* crawl() returns the documents and the task ends, also when the pages link
\* to themselves and to each other in cycles.
C27_CrawlTerminates ==
    (crawler.pc = "crawling") ~> (crawler.pc = "idle" /\ crawler.stack = <<>>)

\* a crawl of a page that links to itself has followed that link and is over
C27_Witness ==
    /\ crawler.pc = "idle"
    /\ crawler.runs = MaxCrawls
    /\ crawler.target.depth >= 1
    /\ \E k \in DOMAIN web[crawler.target.url] :
          web[crawler.target.url][k] = crawler.target.url
    /\ \E i \in RequestsOfRun :
          /\ web_requests[i].url = crawler.target.url
          /\ web_requests[i].content_type = "text/html"
    /\ Cardinality(RequestsOfRun) >= 2

\* the URLs at most `depth` links away from the URLs of `from`
RECURSIVE Within(_, _)
Within(from, depth) ==
    IF depth = 0 THEN from
    ELSE Within(from \cup UNION {Range(web[u]) : u \in from}, depth - 1)

\* C29: when a crawl has returned in which no request failed, no URL was
\* skipped as already stored and every page was HTML, every URL whose
\* shortest link distance from the start URL is at most target.depth has
\* been fetched.
C29_FetchesAllWithinDepth ==
    (/\ crawler.pc = "crawling"
     /\ crawler.stack = <<>>
     /\ crawler.target.update_existing
     /\ \A i \in RequestsOfRun :
           /\ ~ web_requests[i].raised
           /\ web_requests[i].content_type = "text/html")
    => \A u \in Within({crawler.target.url}, crawler.target.depth) :
          \E i \in RequestsOfRun : web_requests[i].url = u


(***************************************************************************)
(* Password login: authenticate_user and the /token endpoint               *)
(* (auth/auth.py 36-104, auth/router.py 40-77).                            *)
(***************************************************************************)
MaxUsers == 2
MaxPasswords == 2

\* the usernames of the table, and one that was never registered
Usernames == 1..(MaxUsers + 1)

Passwords == 1..MaxPasswords

\* pwd_context.hash: the bcrypt hash of a password
get_password_hash(password) == [bcrypt |-> password]

\* hashed_password of a row: a bcrypt hash, or NULL
NoHash == [bcrypt |-> 0]

\* pwd_context.verify: NULL verifies against no password
verify_password(plain_password, hashed_password) ==
    hashed_password # NoHash /\ hashed_password = get_password_hash(plain_password)

NoUser == [found |-> FALSE, hashed_password |-> NoHash, is_active |-> FALSE]

UserRows ==
    [found : {TRUE},
     hashed_password : {get_password_hash(p) : p \in Passwords} \cup {NoHash},
     is_active : BOOLEAN]

\* lines 63-73
get_user(username) ==
    IF username \in DOMAIN user_rows THEN user_rows[username] ELSE NoUser

\* Python's False
PyFalse == 0

\* lines 76-104 without the test of is_active
authenticate_user_any(username, password) ==
    LET user == get_user(username)
    IN IF ~ user.found THEN PyFalse
       ELSE IF ~ verify_password(password, user.hashed_password) THEN PyFalse
       ELSE username

\* lines 76-104: the username of the row returned, or False
authenticate_user(username, password) ==
    LET user == get_user(username)
    IN IF ~ user.found THEN PyFalse
       ELSE IF ~ verify_password(password, user.hashed_password) THEN PyFalse
       ELSE IF ~ user.is_active THEN PyFalse
       ELSE username

HTTP_401_UNAUTHORIZED == 401
HTTP_200_OK == 200

\* auth/router.py 74-76: the token carries the username as "sub"
create_access_token(sub) == [sub |-> sub]

\* auth/router.py 40-77
Login(username, password) ==
    /\ login_call.pc = "idle"
    /\ LET user == authenticate_user(username, password)
       IN login_call' =
              IF user = PyFalse
              THEN [pc |-> "returned", username |-> username, password |-> password,
                    user |-> user, status_code |-> HTTP_401_UNAUTHORIZED,
                    access_token |-> 0]
              ELSE [pc |-> "returned", username |-> username, password |-> password,
                    user |-> user, status_code |-> HTTP_200_OK,
                    access_token |-> create_access_token(user)]
    /\ UNCHANGED <<user_rows, classifierVars, rest_auth>>

InitLogin ==
    /\ ClassifierInit
    /\ RestIdle_auth
    /\ user_rows \in [1..MaxUsers -> UserRows \cup {NoUser}]
    /\ login_call = IdleLogin

NextLogin == \E username \in Usernames, password \in Passwords : Login(username, password)

SpecLogin == InitLogin /\ [][NextLogin]_vars

\* the form names a stored, active user and the password of its hash
GoodCredentials ==
    /\ login_call.username \in DOMAIN user_rows
    /\ user_rows[login_call.username].found
    /\ user_rows[login_call.username].hashed_password = get_password_hash(login_call.password)
    /\ user_rows[login_call.username].is_active

BATCH_SIZE == 2
MaxTexts == 3

\* a row that has not been classified: subject, phase, priority, role unknown
Unclassified == [batch |-> 0, item |-> 0]

\* normalize_result of the item at position `item` of the answer to the batch
\* that starts at index `batch`
Normalized(batch, item) == [batch |-> batch, item |-> item]

\* texts_with_ids[i : i + batch_size], as indices into texts_with_ids (from 1)
Batch(run) ==
    {p \in DOMAIN run.texts_with_ids : run.i < p /\ p <= run.i + BATCH_SIZE}

InBatchLoop == save_run.pc = "loop" /\ save_run.i < Len(save_run.texts_with_ids)

\* lines 85-101 for one batch: the answer is a JSON array of `length` items;
\* zip pairs the batch with it, a row that no longer exists is passed over,
\* the session is committed
Save_Batch(length) ==
    /\ InBatchLoop
    /\ proc_labels' =
          [id \in DOMAIN proc_labels |->
              IF \E p \in Batch(save_run) :
                    /\ save_run.texts_with_ids[p] = id
                    /\ p - save_run.i <= length
              THEN LET p == CHOOSE q \in Batch(save_run) :
                               /\ save_run.texts_with_ids[q] = id
                               /\ q - save_run.i <= length
                   IN Normalized(save_run.i, p - save_run.i)
              ELSE proc_labels[id]]
    /\ save_run' = [save_run EXCEPT !.i = @ + BATCH_SIZE]
    /\ UNCHANGED <<classifierVars, rest_save>>

\* a parse error after which the rows of the batch are marked and committed
Save_ParseErrorCommits ==
    /\ InBatchLoop
    /\ proc_labels' =
          [id \in DOMAIN proc_labels |->
              IF \E p \in Batch(save_run) : save_run.texts_with_ids[p] = id
              THEN Normalized(save_run.i, 0)
              ELSE proc_labels[id]]
    /\ save_run' = [save_run EXCEPT !.pc = "raised"]
    /\ UNCHANGED <<classifierVars, rest_save>>

\* lines 57-60, router.py 57-62: json.loads fails, classify_batch raises
\* ValueError, process_task logs it and closes the session
Save_ParseError ==
    /\ InBatchLoop
    /\ save_run' = [save_run EXCEPT !.pc = "raised"]
    /\ UNCHANGED <<proc_labels, classifierVars, rest_save>>

\* line 85: no batch is left
Save_Return ==
    /\ save_run.pc = "loop"
    /\ save_run.i >= Len(save_run.texts_with_ids)
    /\ save_run' = [save_run EXCEPT !.pc = "returned"]
    /\ UNCHANGED <<proc_labels, classifierVars, rest_save>>

\* router.py 45-54: the statements read from the table; a row may have been
\* deleted by the time its batch is saved
InitSave ==
    /\ ClassifierInit
    /\ RestIdle_save
    /\ \E n \in 1..MaxTexts, stored \in SUBSET (1..MaxTexts) :
          /\ save_run = [pc |-> "loop", texts_with_ids |-> [p \in 1..n |-> p], i |-> 0]
          /\ proc_labels = [id \in stored \cap (1..n) |-> Unclassified]

NextSave ==
    \/ \E length \in 0..(BATCH_SIZE + 1) : Save_Batch(length)
    \/ Save_ParseError
    \/ Save_Return

SpecSave == InitSave /\ [][NextSave]_vars

\* C26: when the answer for a batch cannot be parsed, the error is raised, no
\* row of that batch or of a later batch is modified and what was committed
\* for the earlier batches remains.
C26_ParseErrorKeepsEarlierBatches ==
    /\ [][save_run'.pc = "raised" /\ save_run.pc # "raised"
             => proc_labels' = proc_labels]_vars
    /\ [][save_run.pc = "raised" => UNCHANGED <<proc_labels, save_run>>]_vars
    /\ [](save_run.pc = "raised" =>
             \A p \in DOMAIN save_run.texts_with_ids :
                (p > save_run.i /\ save_run.texts_with_ids[p] \in DOMAIN proc_labels)
                   => proc_labels[save_run.texts_with_ids[p]] = Unclassified)

\* the second batch failed to parse after the first batch was committed
C26_Witness ==
    /\ save_run.pc = "raised"
    /\ save_run.i = BATCH_SIZE
    /\ \E id \in DOMAIN proc_labels : proc_labels[id] # Unclassified
    /\ \E id \in DOMAIN proc_labels : proc_labels[id] = Unclassified

\* C30: when classify_and_save has returned, every statement whose row exists
\* carries the classification of the answer's item at its position in its batch.
C30_EveryStatementClassified ==
    save_run.pc = "returned" =>
        \A p \in DOMAIN save_run.texts_with_ids :
            save_run.texts_with_ids[p] \in DOMAIN proc_labels =>
               \E b \in 0..Len(save_run.texts_with_ids) :
                  /\ b < p
                  /\ p <= b + BATCH_SIZE
                  /\ proc_labels[save_run.texts_with_ids[p]] = Normalized(b, p - b)


(***************************************************************************)
(* Progress of an accepted classification run.                             *)
(***************************************************************************)
\* The handler goes on after run_in_executor and the worker thread goes on with
\* its job: every LLM and database call returns.
SpecExecLive ==
    /\ Init
    /\ [][NextExec]_vars
    /\ WF_vars(Classify_Reset)
    /\ WF_vars(Workers(RunExtract, RunCustom, RunKeywords))

\* request number r has just been accepted: its job is submitted
JustAccepted(r) == requests_made = r /\ handler.pc = "reset"

\* C28: after a classify request has been accepted, either a later request is
\* made or the progress state eventually shows status "completed" and keeps
\* showing it, whatever the interleaving of the handler and the worker thread.
C28_EventuallyCompleted ==
    \A r \in 1..MaxRequests :
        [](JustAccepted(r) =>
              \/ <>(requests_made > r)
              \/ <>[](classification_progress.status = "completed"))

====
